---- MODULE Spec2Model ----
(***************************************************************************)
(* Call-session lifecycle, call-history recorder and configuration         *)
(* resolution of the agent service (src/agent-service).                    *)
(*                                                                         *)
(* One asyncio event loop runs everything: an action of this module is the *)
(* code a coroutine executes between two suspension points.  Awaits on the *)
(* transport, the pipeline and HTTP are suspension points whose completion *)
(* is a separate action; awaits on repository coroutines that never        *)
(* suspend (_save_call_record, update_call_stage, ...) are part of the     *)
(* calling action.                                                         *)
(***************************************************************************)
EXTENDS Integers, Sequences, FiniteSets, TLC

(***************************************************************************)
(* Bounds of the model                                                     *)
(***************************************************************************)
MaxCalls == 2          \* call ids the recorder hands out in one run
MaxTimeline == 1       \* stage updates applied to one record
MaxSignals == 1        \* SIGINT/SIGTERM deliveries to one session
MaxParticipants == 1   \* participant_connected events of one session
Horizon == 3           \* timers longer than this are tracked as "long"
MaxStageUpdates == 3   \* stage updates of one session (SpecStages)
MaxBatch == 3          \* tool schemas in one fetched batch (SpecDynamicTools)
MaxEndCalls == 3       \* end_call_recording calls on one call id (SpecRetry)

(***************************************************************************)
(* Python values                                                           *)
(***************************************************************************)
NoneVal == "None"

EmptyDict == [k \in {} |-> NoneVal]

\* dict.get(key, default)
Get(d, k, dflt) == IF k \in DOMAIN d THEN d[k] ELSE dflt

\* truth value of a dict
Truthy(d) == DOMAIN d # {}

Stages == {"greeting", "qualification"}

(***************************************************************************)
(* State                                                                   *)
(***************************************************************************)
VARIABLES
    active_calls,   \* call_history.active_calls: call_id -> CallRecord
    next_call_id,   \* the next fresh uuid4 (ids are never reused)
    send_log,       \* records handed to send_call_history, in call order
    inflight,       \* call_id -> send_call_history awaits not yet returned
    last_op,        \* the latest recorder operation on an already ended call id
    \* one Assistant and its entrypoint (agent.py)
    epc,            \* where the entrypoint coroutine is suspended
    handlers_on,    \* participant_connected and signal handlers registered
    session_id,     \* Assistant._session_id, 0 for None
    agent_session,  \* Assistant._agent_session is not None
    pipeline,       \* the AgentSession object: none, created, started, closed
    agent_config,   \* Assistant._agent_config, EmptyDict for None
    interaction_stage,
    voice_handler,  \* on_voice_activity registered on the pipeline session
    task,           \* monitor task -> where its coroutine is suspended
    timer,          \* monitor task -> seconds left of its sleep / wait_for
    cancel_req,     \* monitor task -> Task.cancel() called, not yet delivered
    es_pc,          \* end_session caller -> where that call is suspended
    es_id,          \* end_session caller -> call id of its send_call_history await
    es_reason,      \* end_session caller -> its reason argument, until line 630 used it
    es_outcome,     \* end_session caller -> outcome of its end_call_recording, while it disconnects
    ppc,            \* participant event -> state of its handler task
    signals,        \* signals delivered so far
    room_connected, \* ctx.room is connected
    close_calls,    \* calls of AgentSession.aclose
    disconnect_calls, \* calls of ctx.room.disconnect
    recorder_calls, \* recorder calls made by update_interaction_stage / end_session
    stage_updates,  \* update_interaction_stage calls so far
    silent_for,     \* seconds the current wait_for of the silence monitor has lasted
    timeout_silence, \* silent_for when the silence wait timed out, -1 before
    voice_seen,     \* a voice-activity signal woke the waiting silence monitor
    voice_late,     \* a voice-activity signal came while the silence monitor was past its timeout
    last_decision,  \* outcome of the latest _start_call_recording
    cf              \* one configuration resolution (SpecConfig)

recVars == <<active_calls, next_call_id, send_log, inflight, last_op>>

entryVars == <<epc, handlers_on, session_id, agent_session, pipeline,
               agent_config, interaction_stage, voice_handler>>

taskVars == <<task, timer, cancel_req>>

esVars == <<es_pc, es_id, es_reason, es_outcome>>

envVars == <<ppc, signals, room_connected>>

histVars == <<close_calls, disconnect_calls, recorder_calls, stage_updates,
              silent_for, timeout_silence, voice_seen, voice_late, last_decision>>

sessVars == <<entryVars, taskVars, esVars, envVars, histVars>>

vars == <<recVars, sessVars, cf>>

CallIds == 1..MaxCalls

(***************************************************************************)
(* CallRecord (utils/call_history.py)                                      *)
(***************************************************************************)
\* CallRecord.__init__
CallRecord(call_id, phone_number, call_type) ==
    [call_id |-> call_id,
     phone_number |-> phone_number,
     call_type |-> call_type,
     end_time |-> NoneVal,
     duration_seconds |-> NoneVal,
     status |-> "started",
     termination_reason |-> NoneVal,
     agent_config |-> [stt_config_key |-> NoneVal, business_type |-> NoneVal],
     final_stage |-> NoneVal,
     successful |-> NoneVal,
     stage_timeline |-> <<>>]

\* CallRecord.update_config
update_config(rec, config) ==
    IF ~Truthy(config) THEN rec
    ELSE [rec EXCEPT !.agent_config =
            [stt_config_key |-> Get(config, "stt_config_key", "unknown"),
             business_type |->
                Get(Get(config, "business_config", EmptyDict),
                    "business_type", "unknown")]]

update_stage_keeps_final(rec, stage) ==
    [rec EXCEPT !.stage_timeline = Append(@, [stage |-> stage, timestamp |-> "now"])]

\* CallRecord.update_stage
update_stage(rec, stage) ==
    [rec EXCEPT !.stage_timeline = Append(@, [stage |-> stage, timestamp |-> "now"]),
                !.final_stage = stage]

\* CallRecord.complete_call; outcomes is a dict, EmptyDict when not given
complete_call(rec, status, reason, outcomes) ==
    LET r1 == [rec EXCEPT !.end_time = "set",
                          !.status = status,
                          !.termination_reason = reason,
                          !.duration_seconds = "set"]
    IN IF Truthy(outcomes)
       THEN [r1 EXCEPT !.final_stage = Get(outcomes, "final_stage", @),
                       !.successful = Get(outcomes, "successful", @)]
       ELSE r1

\* dict.pop(key) on active_calls
Pop(calls, call_id) == [c \in (DOMAIN calls) \ {call_id} |-> calls[c]]

\* active_calls[call_id] = record
Put(calls, call_id, rec) ==
    [c \in (DOMAIN calls) \cup {call_id} |->
        IF c = call_id THEN rec ELSE calls[c]]

(***************************************************************************)
(* Recorder functions (utils/call_history.py).  Each operator gives the    *)
(* table after the synchronous part of the function.                       *)
(***************************************************************************)
\* start_call_recording: the new record is stored under its own call_id
start_call_recording(calls, call_id, phone_number, call_type) ==
    Put(calls, call_id, CallRecord(call_id, phone_number, call_type))

\* update_call_config: False when the call is not active
update_call_config(calls, call_id, config) ==
    IF call_id \notin DOMAIN calls THEN calls
    ELSE Put(calls, call_id, update_config(calls[call_id], config))

\* update_call_stage: False when the call is not active
update_call_stage(calls, call_id, stage) ==
    IF call_id \notin DOMAIN calls THEN calls
    ELSE Put(calls, call_id, update_stage(calls[call_id], stage))

end_call_recording_completes(calls, call_id) ==
    Put(calls, call_id, complete_call(calls[call_id], "completed", NoneVal, EmptyDict))

end_call_recording_keeps(calls, call_id) == calls

\* end_call_recording up to its await: the record is completed and popped
end_call_recording_pop(calls, call_id) == Pop(calls, call_id)

\* the dict end_call_recording passes to send_call_history
end_call_recording_dict(calls, call_id, status, reason, outcomes) ==
    complete_call(calls[call_id], status, reason, outcomes)

\* outcomes of send_call_history (utils.api_client): a response without
\* "error", a response with "error", or an exception
SendOutcomes == {"ok", "error", "raise"}

(***************************************************************************)
(* The recorder driven by arbitrary callers (SpecRecorder): any operation  *)
(* on any call id, in any order, with transmissions still in flight.       *)
(***************************************************************************)
EndedIds == {send_log[i].call_id : i \in DOMAIN send_log}

SendsOf(call_id) == Cardinality({i \in DOMAIN send_log : send_log[i].call_id = call_id})

\* last_op after an operation on call_id that reported found
Op(op, call_id, found) ==
    IF call_id \in EndedIds
    THEN [op |-> op, call_id |-> call_id, found |-> found]
    ELSE last_op

ConfigSamples ==
    {EmptyDict,
     [stt_config_key |-> "DEEPGRAM_NOVA2_EN",
      business_config |-> [business_type |-> "restaurant"]]}

RecInit ==
    /\ active_calls = EmptyDict
    /\ next_call_id = 1
    /\ send_log = <<>>
    /\ inflight = EmptyDict
    /\ last_op = [op |-> "none", call_id |-> 0, found |-> FALSE]

R_Start ==
    /\ next_call_id \in CallIds
    /\ active_calls' = start_call_recording(active_calls, next_call_id, "+15551234567", "inbound")
    /\ next_call_id' = next_call_id + 1
    /\ last_op' = Op("start", next_call_id, TRUE)
    /\ UNCHANGED <<send_log, inflight, sessVars, cf>>

R_UpdateStage ==
    \E call_id \in CallIds, stage \in Stages :
        /\ call_id \in DOMAIN active_calls =>
              Len(active_calls[call_id].stage_timeline) < MaxTimeline
        /\ active_calls' = update_call_stage(active_calls, call_id, stage)
        /\ last_op' = Op("update_stage", call_id, call_id \in DOMAIN active_calls)
        /\ UNCHANGED <<next_call_id, send_log, inflight, sessVars, cf>>

R_UpdateConfig ==
    \E call_id \in CallIds, cfg \in ConfigSamples :
        /\ active_calls' = update_call_config(active_calls, call_id, cfg)
        /\ last_op' = Op("update_config", call_id, call_id \in DOMAIN active_calls)
        /\ UNCHANGED <<next_call_id, send_log, inflight, sessVars, cf>>

\* get_call_record: the record's dict, or None when the call is not active
R_Get ==
    \E call_id \in CallIds :
        /\ last_op' = Op("get", call_id, call_id \in DOMAIN active_calls)
        /\ UNCHANGED <<active_calls, next_call_id, send_log, inflight, sessVars, cf>>

EndArgs ==
    {[status |-> "completed", reason |-> NoneVal,
      outcomes |-> [final_stage |-> "greeting", successful |-> "True"]],
     [status |-> "dropped", reason |-> "silence_timeout", outcomes |-> EmptyDict]}

\* end_call_recording up to "await send_call_history(...)"
R_End ==
    \E call_id \in CallIds, a \in EndArgs :
        /\ last_op' = Op("end", call_id, call_id \in DOMAIN active_calls)
        /\ IF call_id \in DOMAIN active_calls
           THEN /\ send_log' = Append(send_log,
                        end_call_recording_dict(active_calls, call_id,
                                                a.status, a.reason, a.outcomes))
                /\ active_calls' = end_call_recording_pop(active_calls, call_id)
                /\ inflight' = Put(inflight, call_id, Get(inflight, call_id, 0) + 1)
           ELSE UNCHANGED <<active_calls, send_log, inflight>>
        /\ UNCHANGED <<next_call_id, sessVars, cf>>

\* send_call_history returns (or raises) and end_call_recording finishes
R_SendReturns ==
    \E call_id \in CallIds, outcome \in SendOutcomes :
        /\ Get(inflight, call_id, 0) > 0
        /\ inflight' = Put(inflight, call_id, inflight[call_id] - 1)
        /\ UNCHANGED <<active_calls, next_call_id, send_log, last_op, sessVars, cf>>

RecNext ==
    \/ R_Start
    \/ R_UpdateStage
    \/ R_UpdateConfig
    \/ R_Get
    \/ R_End
    \/ R_SendReturns

end_call_recording_result_ignores_error(outcome) ==
    IF outcome = "raise" THEN "raised" ELSE "True"

\* end_call_recording 380-394: what the call gives its caller after the
\* transmission: success is False when the response has "error", an
\* exception of send_call_history leaves the function
end_call_recording_result(outcome) ==
    CASE outcome = "ok" -> "True"
      [] outcome = "error" -> "False"
      [] OTHER -> "raised"

\* call ids whose transmission has failed or was interrupted
FailedIds ==
    {r.call_id : r \in {q \in cf.done : q.sent /\ q.outcome \in {"error", "raise"}}}

RtInit == cf = [pc |-> "retry", ends |-> [call_id \in CallIds |-> 0], done |-> {}]

\* end_call_recording up to "await send_call_history(...)", or its early
\* "return False" when the call is not active (366-368)
Rt_End ==
    \E call_id \in CallIds, a \in EndArgs :
        /\ cf.ends[call_id] < MaxEndCalls
        /\ last_op' = Op("end", call_id, call_id \in DOMAIN active_calls)
        /\ IF call_id \in DOMAIN active_calls
           THEN /\ send_log' = Append(send_log,
                        end_call_recording_dict(active_calls, call_id,
                                                a.status, a.reason, a.outcomes))
                /\ active_calls' = end_call_recording_pop(active_calls, call_id)
                /\ inflight' = Put(inflight, call_id, Get(inflight, call_id, 0) + 1)
                /\ cf' = [cf EXCEPT !.ends[call_id] = @ + 1]
           ELSE /\ cf' = [cf EXCEPT !.ends[call_id] = @ + 1,
                                    !.done = @ \cup
                                        {[call_id |-> call_id, sent |-> FALSE,
                                          outcome |-> NoneVal,
                                          after_failure |-> call_id \in FailedIds,
                                          result |-> "False"]}]
                /\ UNCHANGED <<active_calls, send_log, inflight>>
        /\ UNCHANGED <<next_call_id, sessVars>>

\* send_call_history returns or raises and end_call_recording finishes
Rt_SendReturns ==
    \E call_id \in CallIds, outcome \in SendOutcomes :
        /\ Get(inflight, call_id, 0) > 0
        /\ inflight' = Put(inflight, call_id, inflight[call_id] - 1)
        /\ cf' = [cf EXCEPT !.done = @ \cup
                                {[call_id |-> call_id, sent |-> TRUE,
                                  outcome |-> outcome, after_failure |-> FALSE,
                                  result |-> end_call_recording_result(outcome)]}]
        /\ UNCHANGED <<active_calls, next_call_id, send_log, last_op, sessVars>>

RtNext ==
    \/ R_Start
    \/ Rt_End
    \/ Rt_SendReturns

GraceSeconds == 8
DefaultSilenceDuration == 60
DefaultMaxCallDuration == 1800

\* raw configurations the remote service may hold for an identifier
RemoteConfigs ==
    {[voice_provider |-> "cartesia", max_call_duration |-> 3,
      end_call_on_silence |-> TRUE, silence_duration |-> 2],
     [voice_provider |-> "cartesia", max_call_duration |-> 0,
      end_call_on_silence |-> TRUE, silence_duration |-> 2,
      opt_out_sensitive_data |-> TRUE],
     [voice_provider |-> "elevenlabs", max_call_duration |-> 2,
      welcome_message_type |-> "ai_static", static_message |-> "Bonjour"],
     [assistant_instruction |-> "You are Antoine."]}

\* JSON objects the remote service may answer with
JsonBodies ==
    {[responseCode |-> "03", responseDescription |-> "Agent not found for phone number"],
     [responseCode |-> "99", description |-> "rejected"],
     [responseCode |-> "00"],
     [responseCode |-> "00", data |-> [phone_number |-> EmptyDict]]}
    \cup {[responseCode |-> "00", data |-> [phone_number |-> [inbound |-> c]]] : c \in RemoteConfigs}
    \cup {[responseCode |-> "00", data |-> [phone_number |-> [outbound |-> c]]] : c \in RemoteConfigs}
    \cup {[responseCode |-> "00", data |-> [inbound |-> c]] : c \in RemoteConfigs}
    \cup {[responseCode |-> "00", data |-> c] : c \in RemoteConfigs}

\* what can happen to one HTTP request
Transports ==
    {[kind |-> "timeout"],
     [kind |-> "exception", message |-> "Cannot connect to host"],
     [kind |-> "status", status |-> 500, text |-> "Internal Server Error"],
     [kind |-> "text", text |-> "<html>"],
     [kind |-> "json_list"]}
    \cup {[kind |-> "json", body |-> b] : b \in JsonBodies}

\* APIClient._make_request: the returned value is a dict, or a JSON value
\* that is not a dict (its .get then raises AttributeError)
_make_request(transport) ==
    CASE transport.kind = "timeout" ->
            [kind |-> "dict", body |-> [error |-> TRUE, message |-> "Request timeout"]]
      [] transport.kind = "exception" ->
            [kind |-> "dict", body |-> [error |-> TRUE, message |-> transport.message]]
      [] transport.kind = "status" ->
            IF transport.status >= 400
            THEN [kind |-> "dict",
                  body |-> [error |-> TRUE, status_code |-> transport.status,
                            message |-> transport.text]]
            ELSE [kind |-> "dict", body |-> [data |-> transport.text, raw |-> TRUE]]
      [] transport.kind = "text" ->
            [kind |-> "dict", body |-> [data |-> transport.text, raw |-> TRUE]]
      [] transport.kind = "json_list" -> [kind |-> "not_dict"]
      [] OTHER -> [kind |-> "dict", body |-> transport.body]

HttpResults == {_make_request(transport) : transport \in Transports}

\* os.environ: is JWT_SECRET set, is VOICE_CONFIG_TOKEN_URL set
Envs == [jwt_secret : BOOLEAN, config_url : BOOLEAN]

\* participant metadata as handed to the fetcher: None or a dict
Metadatas ==
    {[kind |-> "none"],
     [kind |-> "dict", val |-> EmptyDict],
     [kind |-> "dict", val |-> [direction |-> "outbound"]],
     [kind |-> "dict", val |-> [conf_id |-> "conf-1"]],
     [kind |-> "dict", val |-> [conf_id |-> "conf-1", direction |-> "inbound"]]}

\* the phone number extract_phone_from_room_name finds in the room name
RoomPhones == {NoneVal, "+33644644937"}

Returned(v) == [exc |-> FALSE, val |-> v]
Raised == [exc |-> TRUE, val |-> EmptyDict]

\* fetch_agent_config_by_phone: the configuration part of the returned tuple
fetch_agent_config_by_phone(env, http, call_direction, conf_id) ==
    IF ~env.jwt_secret THEN Raised              \* create_phone_jwt: ValueError
    ELSE IF ~env.config_url THEN Raised         \* ValueError
    ELSE IF http.kind # "dict" THEN Raised      \* result.get: AttributeError
    ELSE LET result == http.body
             data == Get(result, "data", EmptyDict)
             phone_data == Get(data, "phone_number", EmptyDict)
         IN IF Get(result, "error", FALSE) \/ Get(result, "responseCode", NoneVal) # "00"
            THEN Returned(EmptyDict)
            ELSE IF conf_id # NoneVal /\ Truthy(data) THEN Returned(data)
            ELSE IF ~Truthy(phone_data) THEN Returned(EmptyDict)
            ELSE IF call_direction # NoneVal /\ call_direction \in DOMAIN phone_data
                 THEN Returned(phone_data[call_direction])
            ELSE IF "inbound" \in DOMAIN phone_data THEN Returned(phone_data["inbound"])
            ELSE IF "outbound" \in DOMAIN phone_data THEN Returned(phone_data["outbound"])
            ELSE Returned(EmptyDict)

CatchAll_reraises(r) == r

\* what "except Exception" around the fetch turns a result into
CatchAll(r) == IF r.exc THEN Returned(EmptyDict) ELSE r

\* get_agent_config_from_room
get_agent_config_from_room(room_phone, metadata, env, http) ==
    LET md == IF metadata.kind = "dict" /\ Truthy(metadata.val)
              THEN metadata.val ELSE EmptyDict
    IN IF room_phone = NoneVal
       THEN IF Get(md, "conf_id", NoneVal) # NoneVal
            THEN CatchAll(fetch_agent_config_by_phone(env, http,
                              Get(md, "direction", NoneVal), md["conf_id"]))
            ELSE Returned(EmptyDict)
       ELSE LET call_direction ==
                    IF Truthy(md) THEN Get(md, "direction", "inbound") ELSE NoneVal
            IN CatchAll(fetch_agent_config_by_phone(env, http, call_direction, NoneVal))

(***************************************************************************)
(* Assistant._load_config (agent.py)                                       *)
(***************************************************************************)
ToolNames == {"knowledge_base", "sms", "calendar", "email"}

ToolConfig(enabled, url, metadata) ==
    [enabled |-> enabled, url |-> url, metadata |-> metadata]

_prepare_tool_configs_drops_url(tools_config) ==
    [tool_name \in ToolNames |->
        LET tool_config == Get(tools_config, tool_name, [kind |-> "bool", val |-> FALSE])
        IN IF tool_config.kind = "bool"
           THEN ToolConfig(tool_config.val, NoneVal, NoneVal)
           ELSE IF tool_config.kind = "dict"
           THEN ToolConfig(Get(tool_config.val, "enabled", FALSE), NoneVal,
                           Get(tool_config.val, "metadata", EmptyDict))
           ELSE ToolConfig(FALSE, NoneVal, NoneVal)]

\* Assistant._prepare_tool_configs; a raw tool value is tagged with its
\* Python type: [kind |-> "bool", val |-> b], [kind |-> "dict", val |-> d]
\* or [kind |-> "other"]
_prepare_tool_configs(tools_config) ==
    [tool_name \in ToolNames |->
        LET tool_config == Get(tools_config, tool_name, [kind |-> "bool", val |-> FALSE])
        IN IF tool_config.kind = "bool"
           THEN ToolConfig(tool_config.val, NoneVal, NoneVal)
           ELSE IF tool_config.kind = "dict"
           THEN ToolConfig(Get(tool_config.val, "enabled", FALSE),
                           Get(tool_config.val, "url", NoneVal),
                           Get(tool_config.val, "metadata", EmptyDict))
           ELSE ToolConfig(FALSE, NoneVal, NoneVal)]

_prepare_stt_config(config) ==
    [provider |-> Get(config, "transcription_provider", "deepgram"),
     language |-> Get(config, "agent_language", "en-US")]

_prepare_tts_config(config) ==
    [provider |-> Get(config, "voice_provider", NoneVal),
     voice |-> Get(config, "voice", NoneVal),
     custom_voice_id |-> Get(config, "custom_voice_id", NoneVal),
     speed |-> Get(config, "voice_speed", 1),
     stability |-> Get(config, "stability", 75),
     clarity_similarity |-> Get(config, "clarity_similarity", 80),
     voice_improvement |-> Get(config, "voice_improvement", TRUE),
     language |-> Get(config, "agent_language", NoneVal)]

_prepare_llm_config(config) == EmptyDict

\* the AgentConfig that _load_config builds from the fetched raw configuration
AgentConfig(raw_config) ==
    [stt_config |-> _prepare_stt_config(raw_config),
     tts_config |-> _prepare_tts_config(raw_config),
     llm_config |-> _prepare_llm_config(raw_config),
     instructions |-> Get(raw_config, "assistant_instruction",
                          "You are a helpful voice AI assistant."),
     welcome_message |-> Get(raw_config, "static_message",
                             "Hello! How can I help you today?"),
     welcome_type |-> Get(raw_config, "welcome_message_type", "user_initiates"),
     end_call_on_silence |-> Get(raw_config, "end_call_on_silence", FALSE),
     silence_duration |-> Get(raw_config, "silence_duration", DefaultSilenceDuration),
     max_call_duration |-> Get(raw_config, "max_call_duration", DefaultMaxCallDuration),
     tools |-> _prepare_tool_configs(Get(raw_config, "tools", EmptyDict))]

\* _load_config: the fetch result is used as it comes; an exception of the
\* fetch would leave through _load_config and start_session
_load_config(fetched) ==
    IF fetched.exc THEN [exc |-> TRUE, val |-> NoneVal]
    ELSE [exc |-> FALSE, val |-> AgentConfig(fetched.val)]

(***************************************************************************)
(* One configuration resolution (SpecConfig): the room, the metadata, the  *)
(* environment and the fate of the HTTP request are drawn in the initial   *)
(* state; the steps are the fetch and _load_config.                        *)
(***************************************************************************)
CfInit ==
    \E ph \in RoomPhones, md \in Metadatas, env \in Envs, tr \in Transports :
        cf = [pc |-> "input", room_phone |-> ph, metadata |-> md, env |-> env,
              transport |-> tr,
              fetched |-> Returned(EmptyDict), loaded |-> Returned(EmptyDict)]

\* await get_agent_config_from_room(...) in _load_config (276-279)
Cf_Fetch ==
    /\ cf.pc = "input"
    /\ cf' = [cf EXCEPT !.pc = "fetched",
                        !.fetched = get_agent_config_from_room(
                                        cf.room_phone, cf.metadata, cf.env,
                                        _make_request(cf.transport))]
    /\ UNCHANGED <<recVars, sessVars>>

\* the rest of _load_config (281-319)
Cf_Load ==
    /\ cf.pc = "fetched"
    /\ cf' = [cf EXCEPT !.pc = "loaded", !.loaded = _load_config(cf.fetched)]
    /\ UNCHANGED <<recVars, sessVars>>

CfNext ==
    \/ Cf_Fetch
    \/ Cf_Load

\* the failures of the remote lookup: signing or endpoint setting missing,
\* timeout, transport error, HTTP error status, responseCode other than "00"
ResolutionFails ==
    \/ ~cf.env.jwt_secret
    \/ ~cf.env.config_url
    \/ cf.transport.kind \in {"timeout", "exception"}
    \/ cf.transport.kind = "status" /\ cf.transport.status >= 400
    \/ /\ cf.transport.kind = "json"
       /\ Get(cf.transport.body, "responseCode", NoneVal) # "00"

\* the AgentConfig of a session that got no configuration
DefaultAgentConfig ==
    [stt_config |-> [provider |-> "deepgram", language |-> "en-US"],
     tts_config |-> [provider |-> NoneVal, voice |-> NoneVal,
                     custom_voice_id |-> NoneVal, speed |-> 1, stability |-> 75,
                     clarity_similarity |-> 80, voice_improvement |-> TRUE,
                     language |-> NoneVal],
     llm_config |-> EmptyDict,
     instructions |-> "You are a helpful voice AI assistant.",
     welcome_message |-> "Hello! How can I help you today?",
     welcome_type |-> "user_initiates",
     end_call_on_silence |-> FALSE,
     silence_duration |-> 60,
     max_call_duration |-> 1800,
     tools |-> [tool_name \in ToolNames |-> ToolConfig(FALSE, NoneVal, NoneVal)]]

StaticConfig(stt, tts, business) ==
    [stt_config_key |-> stt,
     llm_config_key |-> "OPENAI_GPT4O_MINI",
     tts_config_key |-> tts,
     business_config |-> [business_type |-> business]]

\* AGENT_CONFIG_DB: every "outbound" entry is an empty dict
AGENT_CONFIG_DB ==
    ("+33644644937" :>
        [inbound |-> StaticConfig("DEEPGRAM_NOVA2_FR", "CARTESIA_DEFAULT_FR", "social_housing"),
         outbound |-> EmptyDict])
    @@ ("+15551234567" :>
        [inbound |-> StaticConfig("DEEPGRAM_NOVA2_EN", "CARTESIA_DEFAULT_EN", "sales_consultation"),
         outbound |-> EmptyDict])
    @@ ("+15559876543" :>
        [inbound |-> StaticConfig("DEEPGRAM_NOVA2_EN", "CARTESIA_DEFAULT_EN", "restaurant"),
         outbound |-> EmptyDict])
    @@ ("+15559999999" :>
        [inbound |-> StaticConfig("DEEPGRAM_NOVA2_EN", "CARTESIA_DEFAULT_EN", "ai_assistant"),
         outbound |-> EmptyDict])
    @@ ("default" :>
        [inbound |-> StaticConfig("DEEPGRAM_NOVA2_EN", "CARTESIA_DEFAULT_EN", "default"),
         outbound |-> EmptyDict])

\* an Optional[Dict]: None, or a dict
NoneResult == [kind |-> "none"]
DictResult(d) == [kind |-> "dict", val |-> d]

\* os.environ as the lookup reads it
ResolverEnvs == [jwt_secret : BOOLEAN, config_url : BOOLEAN, backend_base_url : BOOLEAN]

\* "A or B if C else None" groups as "(A or B) if C else None": there is a
\* token URL only when BACKEND_BASE_URL is set
TokenUrlSet(env) == env.backend_base_url

\* APIClient.fetch_agent_config: the data of a "00" answer, None otherwise
\* and on any exception
fetch_agent_config(env, http) ==
    IF ~TokenUrlSet(env) \/ ~env.jwt_secret THEN NoneResult
    ELSE IF http.kind # "dict" THEN NoneResult
    ELSE IF Get(http.body, "responseCode", NoneVal) = "00"
            /\ "data" \in DOMAIN http.body
         THEN DictResult(http.body.data)
    ELSE NoneResult

\* lines 408-415: the entry for the call type when the answer has one (in
\* JsonBodies every value under a call type is a dict), else the answer
SelectCallType(api_config, call_type) ==
    IF call_type \in DOMAIN api_config THEN api_config[call_type] ELSE api_config

\* lines 433-448: the static table, keyed by the phone number only
StaticLookup(phone_number, call_type) ==
    IF phone_number \notin DOMAIN AGENT_CONFIG_DB THEN NoneResult
    ELSE LET config == Get(AGENT_CONFIG_DB[phone_number], call_type, EmptyDict)
         IN IF Truthy(config) THEN DictResult(config) ELSE NoneResult

ResolverPhones == {"+33644644937", "+15559999999", "+19990000000"}

CallTypes == {"inbound", "outbound"}

\* what redis_client.get does: nothing cached, a cached configuration, or
\* the cache backend raises
CacheGets == {"miss", "hit", "raise"}

CachedConfig == [voice_provider |-> "cartesia", max_call_duration |-> 3]

RsInit ==
    \E ph \in ResolverPhones, ct \in CallTypes, cg \in CacheGets,
       env \in ResolverEnvs, tr \in Transports, set_raises \in BOOLEAN :
        cf = [pc |-> "cache", phone_number |-> ph, call_type |-> ct,
              cache_get |-> cg, env |-> env, transport |-> tr,
              set_raises |-> set_raises,
              remote_calls |-> 0, cache_sets |-> 0, result |-> NoneResult]

Rs_Cache_fatal ==
    /\ cf.pc = "cache"
    /\ cf' = IF cf.cache_get = "hit"
             THEN [cf EXCEPT !.pc = "returned", !.result = DictResult(CachedConfig)]
             ELSE IF cf.cache_get = "raise"
             THEN [cf EXCEPT !.pc = "returned"]
             ELSE [cf EXCEPT !.pc = "remote"]
    /\ UNCHANGED <<recVars, sessVars>>

\* step 1 (367-378): a cache hit is returned, anything else falls through
Rs_Cache ==
    /\ cf.pc = "cache"
    /\ cf' = IF cf.cache_get = "hit"
             THEN [cf EXCEPT !.pc = "returned", !.result = DictResult(CachedConfig)]
             ELSE [cf EXCEPT !.pc = "remote"]
    /\ UNCHANGED <<recVars, sessVars>>

\* step 2 (405-428): the remote service, then the write to the cache
Rs_Remote ==
    /\ cf.pc = "remote"
    /\ LET api_config == fetch_agent_config(cf.env, _make_request(cf.transport))
           usable == api_config.kind = "dict" /\ Truthy(api_config.val)
           config_from_api == IF usable
                              THEN SelectCallType(api_config.val, cf.call_type)
                              ELSE EmptyDict
       IN cf' = IF usable /\ Truthy(config_from_api)
                THEN [cf EXCEPT !.pc = "returned",
                                !.remote_calls = @ + 1,
                                !.cache_sets = IF cf.set_raises THEN @ ELSE @ + 1,
                                !.result = DictResult(config_from_api)]
                ELSE [cf EXCEPT !.pc = "static",
                                !.remote_calls = @ + 1,
                                !.cache_sets = IF usable /\ ~cf.set_raises
                                               THEN @ + 1 ELSE @]
    /\ UNCHANGED <<recVars, sessVars>>

\* step 3 (430-448): the hardcoded table
Rs_Static ==
    /\ cf.pc = "static"
    /\ cf' = [cf EXCEPT !.pc = "returned",
                        !.result = StaticLookup(cf.phone_number, cf.call_type)]
    /\ UNCHANGED <<recVars, sessVars>>

RsNext ==
    \/ Rs_Cache
    \/ Rs_Remote
    \/ Rs_Static

\* the remote step gave no configuration
RemoteGaveNothing ==
    LET api_config == fetch_agent_config(cf.env, _make_request(cf.transport))
    IN \/ api_config.kind = "none"
       \/ ~Truthy(api_config.val)
       \/ ~Truthy(SelectCallType(api_config.val, cf.call_type))

\* C9: when the cache misses, the remote service gives nothing and the static
\* table has no entry for the identifier, the lookup returns the "default"
\* entry of the static table
C9_DefaultOnTotalMiss ==
    (/\ cf.pc = "returned"
     /\ cf.cache_get # "hit"
     /\ RemoteGaveNothing
     /\ cf.phone_number \notin DOMAIN AGENT_CONFIG_DB)
        => cf.result = DictResult(AGENT_CONFIG_DB["default"][cf.call_type])

\* C26: a cache hit is returned without a remote call; a miss and a raising
\* cache backend both go on to the remote service; a configuration the
\* remote service gave is returned whether or not the write to the cache
\* fails, and it is written to the cache when the write does not fail
C26_CacheIsAdvisory ==
    cf.pc = "returned" =>
        /\ cf.cache_get = "hit"
              => (cf.result = DictResult(CachedConfig) /\ cf.remote_calls = 0)
        /\ cf.cache_get # "hit" => cf.remote_calls = 1
        /\ (cf.cache_get # "hit" /\ ~RemoteGaveNothing)
              => /\ cf.result =
                      DictResult(SelectCallType(
                          fetch_agent_config(cf.env, _make_request(cf.transport)).val,
                          cf.call_type))
                 /\ cf.cache_sets = IF cf.set_raises THEN 0 ELSE 1

\* the cache backend raised on get, the remote service gave a configuration
\* and the write to the cache failed
C26_Witness ==
    /\ cf.pc = "returned"
    /\ cf.cache_get = "raise"
    /\ ~RemoteGaveNothing
    /\ cf.set_raises
    /\ cf.remote_calls = 1
    /\ cf.result.kind = "dict"

(***************************************************************************)
(* One call session: entrypoint, participant handler, monitors and         *)
(* end_session (agent.py), on one event loop.                              *)
(***************************************************************************)
Tasks == {"dur", "sil"}

AllSigNames == <<"sig1", "sig2", "sig3", "sig4">>

SigNames == {AllSigNames[k] : k \in 1..MaxSignals}

\* the coroutines that call end_session: the two monitor tasks, one task
\* per delivered signal, and the entrypoint's except clause
Callers == Tasks \cup SigNames \cup {"entry"}

Participants == 1..MaxParticipants

\* participant.kind: the first participant is the SIP caller, later ones
\* join from the web
IsSip(p) == p = 1

\* handle_participant_connected 187-194
CallType(p) == IF IsSip(p) THEN "inbound" ELSE "web"

\* str(e) of the exception the entrypoint caught
ErrorMessages == {"pipeline start failed", ""}

\* every outcome get_agent_config_from_room can have
FetchResults ==
    {get_agent_config_from_room(ph, md, env, http) :
        ph \in RoomPhones, md \in Metadatas, env \in Envs, http \in HttpResults}

Long == Horizon + 1

\* a sleep of d seconds as a timer value
SetTimer(d) == IF d > Horizon THEN Long ELSE d

WindowAfterVoice_keeps(silence_duration, remaining) == remaining

\* the silence window after a voice-activity signal woke the monitor: the
\* loop continues and wait_for starts again with the full timeout
WindowAfterVoice(silence_duration, remaining) == SetTimer(silence_duration)

RecordingAllowed_always(raw_config) == TRUE

\* _start_call_recording records unless the fetched configuration opts out
RecordingAllowed(raw_config) == ~Get(raw_config, "opt_out_sensitive_data", FALSE)

\* asyncio.Task.done()
(***************************************************************************)
(* Assistant._start_call_recording (agent.py): the same fetch as           *)
(* _load_config, then the opt-out test and start_call_recording            *)
(***************************************************************************)
\* _start_call_recording after its fetch (260-271): None when the fetch
\* raised or the configuration opts out, else the id of a new record
Sr_Record ==
    /\ cf.pc = "fetched"
    /\ cf' = [cf EXCEPT !.pc = "recorded"]
    /\ last_decision' = IF cf.fetched.exc THEN "error"
                        ELSE IF Get(cf.fetched.val, "opt_out_sensitive_data", FALSE)
                        THEN "optout" ELSE "record"
    /\ IF ~cf.fetched.exc /\ RecordingAllowed(cf.fetched.val)
       THEN /\ active_calls' = start_call_recording(active_calls, next_call_id,
                                                  "+33644644937", "inbound")
            /\ session_id' = next_call_id
            /\ next_call_id' = next_call_id + 1
       ELSE /\ session_id' = 0
            /\ UNCHANGED <<active_calls, next_call_id>>
    /\ UNCHANGED <<send_log, inflight, last_op, epc, handlers_on, agent_session,
                   pipeline, agent_config, interaction_stage, voice_handler, taskVars,
                   esVars, envVars, close_calls, disconnect_calls, recorder_calls,
                   stage_updates, silent_for, timeout_silence, voice_seen, voice_late>>

SrNext ==
    \/ Cf_Fetch
    \/ Sr_Record

\* the request for the configuration was made (a phone number in the room
\* name, or a conf_id in the metadata) and it failed: the token could not
\* be signed, the endpoint is not set, the request timed out or could not
\* connect, or the service answered with an HTTP error status
C31_FetchFailed ==
    /\ \/ cf.room_phone # NoneVal
       \/ /\ cf.metadata.kind = "dict"
          /\ Get(cf.metadata.val, "conf_id", NoneVal) # NoneVal
    /\ \/ ~cf.env.jwt_secret
       \/ ~cf.env.config_url
       \/ cf.transport.kind \in {"timeout", "exception"}
       \/ cf.transport.kind = "status" /\ cf.transport.status >= 400

\* C31: recording fails closed: when the configuration fetch that reads
\* opt_out_sensitive_data fails, _start_call_recording returns None and no
\* call record is created
C31_RecordingFailsClosed ==
    (cf.pc = "recorded" /\ C31_FetchFailed) =>
        /\ session_id = 0
        /\ active_calls = EmptyDict

Done(tk, t) == tk[t] \in {"done", "cancelled"}

SessInit ==
    /\ epc = "connecting"
    /\ handlers_on = FALSE
    /\ session_id = 0
    /\ agent_session = FALSE
    /\ pipeline = "none"
    /\ agent_config = EmptyDict
    /\ interaction_stage = "greeting"
    /\ voice_handler = FALSE
    /\ task = [t \in Tasks |-> "none"]
    /\ timer = [t \in Tasks |-> 0]
    /\ cancel_req = [t \in Tasks |-> FALSE]
    /\ es_pc = [c \in Callers |-> "idle"]
    /\ es_id = [c \in Callers |-> 0]
    /\ es_reason = [c \in Callers |-> NoneVal]
    /\ es_outcome = [c \in Callers |-> NoneVal]
    /\ ppc = [p \in Participants |-> "none"]
    /\ signals = 0
    /\ room_connected = FALSE
    /\ close_calls = 0
    /\ disconnect_calls = 0
    /\ recorder_calls = 0
    /\ stage_updates = 0
    /\ silent_for = 0
    /\ timeout_silence = -1
    /\ voice_seen = FALSE
    /\ voice_late = FALSE
    /\ last_decision = "none"

CfIdle == cf = [pc |-> "idle"]

(***************************************************************************)
(* end_session (agent.py 611-682)                                          *)
(***************************************************************************)
\* lines 630-657 up to the next suspension point: the record is finalized
\* and handed to send_call_history, or room.disconnect() is called
FromRecord(c, reason, calls) ==
    LET recording == session_id # 0
        found == recording /\ session_id \in DOMAIN calls
        status == IF reason \notin {NoneVal, ""} THEN "dropped" ELSE "completed"
        outcomes == IF reason \notin {NoneVal, ""} THEN EmptyDict
                    ELSE [final_stage |-> interaction_stage, successful |-> "True"]
        rsn == IF reason \notin {NoneVal, ""} THEN reason ELSE NoneVal
    IN /\ recorder_calls' = IF recording THEN recorder_calls + 1 ELSE recorder_calls
       /\ es_reason' = [es_reason EXCEPT ![c] = NoneVal]
       /\ UNCHANGED es_outcome
       /\ IF found
          THEN /\ send_log' = Append(send_log,
                      end_call_recording_dict(calls, session_id, status, rsn, outcomes))
               /\ active_calls' = end_call_recording_pop(calls, session_id)
               /\ inflight' = Put(inflight, session_id, Get(inflight, session_id, 0) + 1)
               /\ es_pc' = [es_pc EXCEPT ![c] = "send"]
               /\ es_id' = [es_id EXCEPT ![c] = session_id]
               /\ UNCHANGED disconnect_calls
          ELSE /\ active_calls' = calls
               /\ disconnect_calls' = disconnect_calls + 1
               /\ es_pc' = [es_pc EXCEPT ![c] = "disconnect"]
               /\ UNCHANGED <<send_log, inflight, es_id, es_outcome>>

\* lines 613-627: cancel the monitor tasks that are not done (the calling
\* task included), then await aclose() when there is a pipeline session.
\* tk and calls are the task states and the record table at the call.
BeginEndSession(c, reason, tk, calls) ==
    /\ cancel_req' = [t \in Tasks |->
                        cancel_req[t] \/ (tk[t] # "none" /\ ~Done(tk, t))]
    /\ IF agent_session
       THEN /\ close_calls' = close_calls + 1
            /\ es_reason' = [es_reason EXCEPT ![c] = reason]
            /\ es_pc' = [es_pc EXCEPT ![c] = "aclose"]
            /\ active_calls' = calls
            /\ UNCHANGED <<send_log, inflight, es_id, es_outcome, disconnect_calls, recorder_calls>>
       ELSE /\ FromRecord(c, reason, calls)
            /\ UNCHANGED close_calls

\* the caller's code after "await self.end_session(...)" returned
Finish(c) ==
    /\ es_pc' = [es_pc EXCEPT ![c] = "done"]
    /\ task' = IF c \in Tasks THEN [task EXCEPT ![c] = "done"] ELSE task
    /\ epc' = IF c = "entry" THEN "raised" ELSE epc

\* Task.cancel() schedules the wakeup of the cancelled task with call_soon:
\* the loop delivers every pending CancelledError before it polls for a new
\* event, so nothing else runs while a cancellation is pending
Quiet == \A t \in Tasks : ~cancel_req[t]

\* aclose() returned: line 628, then the record and the disconnect
ES_AcloseDone(c) ==
    /\ es_pc[c] = "aclose"
    /\ Quiet
    /\ pipeline' = "closed"
    /\ agent_session' = FALSE
    /\ FromRecord(c, es_reason[c], active_calls)
    /\ UNCHANGED <<next_call_id, last_op, epc, handlers_on, session_id, agent_config,
                   interaction_stage, voice_handler, taskVars, envVars,
                   close_calls, stage_updates, silent_for, timeout_silence,
                   voice_seen, voice_late, last_decision, cf>>

AfterRecording_propagates(outcome) ==
    IF outcome = "raise" THEN "raised" ELSE "disconnect"

\* where end_session goes after "await end_call_recording(...)": a response
\* with "error" makes it return False, an exception of send_call_history
\* leaves end_call_recording and is logged by "except Exception" (651-652);
\* _terminate_call follows in every case (657)
AfterRecording(outcome) == "disconnect"

\* send_call_history returned or raised, then _terminate_call calls
\* room.disconnect()
ES_SendDone(c) ==
    /\ es_pc[c] = "send"
    /\ Quiet
    /\ inflight' = Put(inflight, es_id[c], inflight[es_id[c]] - 1)
    /\ \E outcome \in SendOutcomes :
          /\ es_outcome' = [es_outcome EXCEPT ![c] = outcome]
          /\ es_pc' = [es_pc EXCEPT ![c] = AfterRecording(outcome)]
          /\ disconnect_calls' = IF AfterRecording(outcome) = "disconnect"
                                 THEN disconnect_calls + 1 ELSE disconnect_calls
    /\ es_id' = [es_id EXCEPT ![c] = 0]
    /\ UNCHANGED <<active_calls, next_call_id, send_log, last_op, entryVars, taskVars,
                   es_reason, envVars, close_calls, recorder_calls,
                   stage_updates, silent_for, timeout_silence, voice_seen, voice_late,
                   last_decision, cf>>

\* room.disconnect() returned: the one-second sleep of line 671 follows
ES_DisconnectDone(c) ==
    /\ es_pc[c] = "disconnect"
    /\ Quiet
    /\ room_connected' = FALSE
    /\ es_pc' = [es_pc EXCEPT ![c] = "sleep"]
    /\ es_outcome' = [es_outcome EXCEPT ![c] = NoneVal]
    /\ UNCHANGED <<recVars, entryVars, taskVars, es_id, es_reason, ppc, signals,
                   histVars, cf>>

\* room.disconnect() raised: logged at 677-678, end_session returns
ES_DisconnectRaises(c) ==
    /\ es_pc[c] = "disconnect"
    /\ Quiet
    /\ Finish(c)
    /\ es_outcome' = [es_outcome EXCEPT ![c] = NoneVal]
    /\ UNCHANGED <<recVars, handlers_on, session_id, agent_session, pipeline,
                   agent_config, interaction_stage, voice_handler, timer, cancel_req,
                   es_id, es_reason, envVars, histVars, cf>>

\* the sleep of line 671 is over: end_session returns to its caller
ES_SleepDone(c) ==
    /\ es_pc[c] = "sleep"
    /\ Quiet
    /\ Finish(c)
    /\ UNCHANGED <<recVars, handlers_on, session_id, agent_session, pipeline,
                   agent_config, interaction_stage, voice_handler, timer, cancel_req,
                   es_id, es_outcome, es_reason, envVars, histVars, cf>>

(***************************************************************************)
(* Monitor tasks (agent.py 529-609)                                        *)
(***************************************************************************)
Reason(t) == IF t = "dur" THEN "max_duration_exceeded" ELSE "silence_timeout"

Duration(t) == IF t = "dur" THEN agent_config.max_call_duration
               ELSE agent_config.silence_duration

\* variables no caller of end_session changes in the step of the call
BeginRest == <<next_call_id, last_op, handlers_on, session_id, agent_session,
               pipeline, interaction_stage, voice_handler, timer, ppc,
               room_connected, stage_updates, silent_for, timeout_silence,
               voice_seen, voice_late, last_decision, cf>>

\* first step of a created task: up to asyncio.sleep / asyncio.wait_for
T_Start(t) ==
    /\ task[t] = "created"
    /\ Quiet
    /\ task' = [task EXCEPT ![t] = "waiting"]
    /\ timer' = [timer EXCEPT ![t] = SetTimer(Duration(t))]
    /\ silent_for' = IF t = "sil" THEN 0 ELSE silent_for
    /\ UNCHANGED <<recVars, entryVars, cancel_req, esVars, envVars, close_calls,
                   disconnect_calls, recorder_calls, stage_updates,
                   timeout_silence, voice_seen, voice_late, last_decision, cf>>

\* line 539 returned: farewell when there is a pipeline session (541-548)
T_DurationElapsed ==
    /\ task["dur"] = "waiting"
    /\ timer["dur"] = 0
    /\ Quiet
    /\ task' = [task EXCEPT !["dur"] = IF agent_session THEN "farewell" ELSE "done"]
    /\ UNCHANGED <<recVars, entryVars, timer, cancel_req, esVars, envVars, histVars, cf>>

\* wait_for raised TimeoutError (585): farewell when there is a pipeline
\* session, otherwise the loop waits again
T_SilenceTimeout ==
    /\ task["sil"] = "waiting"
    /\ timer["sil"] = 0
    /\ Quiet
    /\ IF agent_session
       THEN /\ task' = [task EXCEPT !["sil"] = "farewell"]
            /\ timeout_silence' = silent_for
            /\ UNCHANGED timer
       ELSE /\ timer' = [timer EXCEPT !["sil"] = SetTimer(Duration("sil"))]
            /\ UNCHANGED <<task, timeout_silence>>
    /\ silent_for' = 0
    /\ UNCHANGED <<recVars, entryVars, cancel_req, esVars, envVars, close_calls,
                   disconnect_calls, recorder_calls, stage_updates,
                   voice_seen, voice_late, last_decision, cf>>

T_VoiceActivity_uncommits ==
    /\ Quiet
    /\ voice_handler
    /\ pipeline = "started"
    /\ voice_seen' = (voice_seen \/ task["sil"] = "waiting")
    /\ voice_late' = (voice_late \/ task["sil"] \in {"farewell", "grace"})
    /\ task' = IF task["sil"] \in {"farewell", "grace"}
               THEN [task EXCEPT !["sil"] = "waiting"] ELSE task
    /\ IF task["sil"] \in {"waiting", "farewell", "grace"}
       THEN /\ timer' = [timer EXCEPT !["sil"] = WindowAfterVoice(Duration("sil"), @)]
            /\ silent_for' = 0
       ELSE UNCHANGED <<timer, silent_for>>
    /\ UNCHANGED <<recVars, entryVars, cancel_req, esVars, envVars, close_calls,
                   disconnect_calls, recorder_calls, stage_updates,
                   timeout_silence, last_decision, cf>>

\* on_voice_activity(True) (515-518): set() wakes the waiting monitor,
\* clear() re-arms the event; the monitor loops into a new wait_for
T_VoiceActivity ==
    /\ Quiet
    /\ voice_handler
    /\ pipeline = "started"
    /\ voice_seen' = (voice_seen \/ task["sil"] = "waiting")
    /\ voice_late' = (voice_late \/ task["sil"] \in {"farewell", "grace"})
    /\ IF task["sil"] = "waiting"
       THEN /\ timer' = [timer EXCEPT !["sil"] = WindowAfterVoice(Duration("sil"), @)]
            /\ silent_for' = 0
       ELSE UNCHANGED <<timer, silent_for>>
    /\ UNCHANGED <<recVars, entryVars, task, cancel_req, esVars, envVars, close_calls,
                   disconnect_calls, recorder_calls, stage_updates,
                   timeout_silence, last_decision, cf>>

\* the farewell generate_reply returned: the grace sleep starts (553, 599)
T_FarewellDone(t) ==
    /\ task[t] = "farewell"
    /\ Quiet
    /\ task' = [task EXCEPT ![t] = "grace"]
    /\ timer' = [timer EXCEPT ![t] = SetTimer(GraceSeconds)]
    /\ UNCHANGED <<recVars, entryVars, cancel_req, esVars, envVars, histVars, cf>>

\* the farewell generate_reply raised: logged by "except Exception"
T_FarewellRaises(t) ==
    /\ task[t] = "farewell"
    /\ Quiet
    /\ task' = [task EXCEPT ![t] = "done"]
    /\ UNCHANGED <<recVars, entryVars, timer, cancel_req, esVars, envVars, histVars, cf>>

\* the grace sleep is over: the monitor calls end_session (557, 603)
T_GraceDone(t) ==
    /\ task[t] = "grace"
    /\ timer[t] = 0
    /\ Quiet
    /\ task' = [task EXCEPT ![t] = "ending"]
    /\ BeginEndSession(t, Reason(t), task, active_calls)
    /\ UNCHANGED <<BeginRest, epc, agent_config, signals>>

T_ReceiveCancel_escapes(t) ==
    /\ cancel_req[t]
    /\ cancel_req' = [cancel_req EXCEPT ![t] = FALSE]
    /\ task' = [task EXCEPT ![t] = "cancelled"]
    /\ es_pc' = IF task[t] = "ending" THEN [es_pc EXCEPT ![t] = "aborted"] ELSE es_pc
    /\ \E took_effect \in BOOLEAN :
          /\ pipeline' = IF task[t] = "ending" /\ es_pc[t] = "aclose" /\ took_effect
                         THEN "closed" ELSE pipeline
          /\ room_connected' = IF task[t] = "ending" /\ es_pc[t] = "disconnect" /\ took_effect
                               THEN FALSE ELSE room_connected
    /\ inflight' = IF task[t] = "ending" /\ es_pc[t] = "send"
                   THEN Put(inflight, es_id[t], inflight[es_id[t]] - 1)
                   ELSE inflight
    /\ timer' = [timer EXCEPT ![t] = 0]
    /\ silent_for' = IF t = "sil" THEN 0 ELSE silent_for
    /\ es_id' = [es_id EXCEPT ![t] = 0]
    /\ es_reason' = [es_reason EXCEPT ![t] = NoneVal]
    /\ es_outcome' = [es_outcome EXCEPT ![t] = NoneVal]
    /\ UNCHANGED <<active_calls, next_call_id, send_log, last_op, epc, handlers_on,
                   session_id, agent_session, agent_config, interaction_stage,
                   voice_handler, ppc, signals, close_calls,
                   disconnect_calls, recorder_calls, stage_updates, timeout_silence,
                   voice_seen, voice_late, last_decision, cf>>

\* the CancelledError of Task.cancel() reaches the task at its await.  A
\* task that never ran ends cancelled; otherwise "except CancelledError"
\* (559, 606) ends the coroutine, also when the await is inside end_session:
\* that call is abandoned where it was suspended, and the operation it was
\* awaiting may or may not have taken effect.
T_ReceiveCancel(t) ==
    /\ cancel_req[t]
    /\ cancel_req' = [cancel_req EXCEPT ![t] = FALSE]
    /\ task' = [task EXCEPT ![t] = IF task[t] = "created" THEN "cancelled" ELSE "done"]
    /\ es_pc' = IF task[t] = "ending" THEN [es_pc EXCEPT ![t] = "aborted"] ELSE es_pc
    /\ \E took_effect \in BOOLEAN :
          /\ pipeline' = IF task[t] = "ending" /\ es_pc[t] = "aclose" /\ took_effect
                         THEN "closed" ELSE pipeline
          /\ room_connected' = IF task[t] = "ending" /\ es_pc[t] = "disconnect" /\ took_effect
                               THEN FALSE ELSE room_connected
    /\ inflight' = IF task[t] = "ending" /\ es_pc[t] = "send"
                   THEN Put(inflight, es_id[t], inflight[es_id[t]] - 1)
                   ELSE inflight
    /\ timer' = [timer EXCEPT ![t] = 0]
    /\ silent_for' = IF t = "sil" THEN 0 ELSE silent_for
    /\ es_id' = [es_id EXCEPT ![t] = 0]
    /\ es_reason' = [es_reason EXCEPT ![t] = NoneVal]
    /\ es_outcome' = [es_outcome EXCEPT ![t] = NoneVal]
    /\ UNCHANGED <<active_calls, next_call_id, send_log, last_op, epc, handlers_on,
                   session_id, agent_session, agent_config, interaction_stage,
                   voice_handler, ppc, signals, close_calls,
                   disconnect_calls, recorder_calls, stage_updates, timeout_silence,
                   voice_seen, voice_late, last_decision, cf>>

\* one second passes; nothing that is due now is left waiting
Tick ==
    /\ Quiet
    /\ \A t \in Tasks :
          /\ task[t] # "created"
          /\ task[t] \in {"waiting", "grace"} => timer[t] > 0
    /\ \E t \in Tasks : task[t] \in {"waiting", "grace"}
    /\ \E stay_long \in [Tasks -> BOOLEAN] :
          timer' = [t \in Tasks |->
                      IF task[t] \notin {"waiting", "grace"} THEN timer[t]
                      ELSE IF timer[t] = Long
                           THEN (IF stay_long[t] THEN Long ELSE Horizon)
                           ELSE timer[t] - 1]
    /\ silent_for' = IF task["sil"] = "waiting" /\ silent_for < Long
                     THEN silent_for + 1 ELSE silent_for
    /\ UNCHANGED <<recVars, entryVars, task, cancel_req, esVars, envVars, close_calls,
                   disconnect_calls, recorder_calls, stage_updates,
                   timeout_silence, voice_seen, voice_late, last_decision, cf>>

(***************************************************************************)
(* entrypoint, initialize and start_session (agent.py 141-166, 471-527,    *)
(* 685-710)                                                                *)
(***************************************************************************)
Fail_always_ends(msg, tk, calls) ==
    /\ epc' = "error_end"
    /\ BeginEndSession("entry", msg, tk, calls)

\* the entrypoint's except clause (706-710): end_session(str(e)) when a
\* call record exists, then the exception is re-raised
Fail(msg, tk, calls) ==
    IF session_id # 0
    THEN /\ epc' = "error_end"
         /\ BeginEndSession("entry", msg, tk, calls)
    ELSE /\ epc' = "raised"
         /\ active_calls' = calls
         /\ UNCHANGED <<cancel_req, es_reason, close_calls, es_pc, send_log,
                        inflight, es_id, es_outcome, disconnect_calls, recorder_calls>>

\* ctx.connect() returned: the participant handler and the signal handlers
\* are registered and start_session awaits the configuration fetch
E_Connected ==
    /\ Quiet
    /\ epc = "connecting"
    /\ epc' = "load_config"
    /\ handlers_on' = TRUE
    /\ room_connected' = TRUE
    /\ UNCHANGED <<recVars, session_id, agent_session, pipeline, agent_config,
                   interaction_stage, voice_handler, taskVars, esVars, ppc, signals,
                   histVars, cf>>

\* ctx.connect() raised: no assistant.session_id, the exception is re-raised
E_ConnectRaises ==
    /\ Quiet
    /\ epc = "connecting"
    /\ epc' = "raised"
    /\ UNCHANGED <<recVars, handlers_on, session_id, agent_session, pipeline,
                   agent_config, interaction_stage, voice_handler, taskVars, esVars,
                   envVars, histVars, cf>>

\* the monitor tasks start_session creates (478-488)
CreatedTasks(cfg) ==
    [t \in Tasks |->
        IF t = "dur"
        THEN (IF cfg.max_call_duration > 0 THEN "created" ELSE "none")
        ELSE (IF cfg.end_call_on_silence /\ cfg.silence_duration > 0
              THEN "created" ELSE "none")]

\* ModelFactory.create_tts reads config.get("provider", "").lower(): a
\* provider of None raises AttributeError
CanBuild(cfg) == cfg.tts_config.provider # NoneVal

\* the fetch of _load_config returned: 281-319, 476-503, up to the await of
\* AgentSession.start; a component constructor may raise
E_ConfigLoaded ==
    /\ Quiet
    /\ epc = "load_config"
    /\ \E fetched \in FetchResults, build_ok \in BOOLEAN, msg \in ErrorMessages :
         LET loaded == _load_config(fetched)
             cfg == loaded.val
             calls == IF session_id # 0
                      THEN update_call_config(active_calls, session_id, fetched.val)
                      ELSE active_calls
         IN IF loaded.exc
            THEN /\ Fail(msg, task, active_calls)
                 /\ UNCHANGED <<agent_config, task, agent_session, pipeline>>
            ELSE /\ agent_config' = cfg
                 /\ task' = CreatedTasks(cfg)
                 /\ IF build_ok /\ CanBuild(cfg)
                    THEN /\ agent_session' = TRUE
                         /\ pipeline' = "created"
                         /\ epc' = "starting"
                         /\ active_calls' = calls
                         /\ UNCHANGED <<cancel_req, es_reason, close_calls, es_pc,
                                        send_log, inflight, es_id, es_outcome, disconnect_calls,
                                        recorder_calls>>
                    ELSE /\ Fail(msg, CreatedTasks(cfg), calls)
                         /\ UNCHANGED <<agent_session, pipeline>>
    /\ UNCHANGED <<next_call_id, last_op, handlers_on, session_id, interaction_stage,
                   voice_handler, timer, ppc, signals, room_connected, stage_updates,
                   silent_for, timeout_silence, voice_seen, voice_late, last_decision, cf>>

\* AgentSession.start returned (506-527): the voice handler is registered
\* when silence detection is on and the welcome reply is awaited; with
\* _agent_session reset to None meanwhile, 522/525 raise AttributeError
E_PipelineStarted ==
    /\ Quiet
    /\ epc = "starting"
    /\ pipeline' = "started"
    /\ IF agent_session
       THEN /\ epc' = "welcome"
            /\ voice_handler' = agent_config.end_call_on_silence
            /\ UNCHANGED <<active_calls, cancel_req, es_reason, close_calls, es_pc,
                           send_log, inflight, es_id, es_outcome, disconnect_calls, recorder_calls>>
       ELSE /\ Fail("'NoneType' object has no attribute", task, active_calls)
            /\ UNCHANGED voice_handler
    /\ UNCHANGED <<next_call_id, last_op, handlers_on, session_id, agent_session,
                   agent_config, interaction_stage, task, timer, ppc, signals,
                   room_connected, stage_updates, silent_for, timeout_silence,
                   voice_seen, voice_late, last_decision, cf>>

E_PipelineStartRaises_welcomes ==
    /\ Quiet
    /\ epc = "starting"
    /\ epc' = "welcome"
    /\ UNCHANGED <<recVars, handlers_on, session_id, agent_session, pipeline,
                   agent_config, interaction_stage, voice_handler, taskVars, esVars,
                   envVars, histVars, cf>>

\* AgentSession.start raised
E_PipelineStartRaises ==
    /\ Quiet
    /\ epc = "starting"
    /\ \E msg \in ErrorMessages : Fail(msg, task, active_calls)
    /\ UNCHANGED <<next_call_id, last_op, handlers_on, session_id, agent_session,
                   pipeline, agent_config, interaction_stage, voice_handler, task,
                   timer, ppc, signals, room_connected, stage_updates, silent_for,
                   timeout_silence, voice_seen, voice_late, last_decision, cf>>

\* the welcome generate_reply returned: start_session and entrypoint return
E_WelcomeDone ==
    /\ Quiet
    /\ epc = "welcome"
    /\ epc' = "returned"
    /\ UNCHANGED <<recVars, handlers_on, session_id, agent_session, pipeline,
                   agent_config, interaction_stage, voice_handler, taskVars, esVars,
                   envVars, histVars, cf>>

\* the welcome generate_reply raised
E_WelcomeRaises ==
    /\ Quiet
    /\ epc = "welcome"
    /\ \E msg \in ErrorMessages : Fail(msg, task, active_calls)
    /\ UNCHANGED <<next_call_id, last_op, handlers_on, session_id, agent_session,
                   pipeline, agent_config, interaction_stage, voice_handler, task,
                   timer, ppc, signals, room_connected, stage_updates, silent_for,
                   timeout_silence, voice_seen, voice_late, last_decision, cf>>

(***************************************************************************)
(* participant_connected, signals, stage updates                           *)
(***************************************************************************)
\* on_participant_join creates the handler task; it runs 174-206 up to the
\* fetch inside _start_call_recording
P_Connected(p) ==
    /\ Quiet
    /\ handlers_on
    /\ room_connected
    /\ ppc[p] = "none"
    /\ p > 1 => ppc[p - 1] # "none"
    /\ ppc' = [ppc EXCEPT ![p] = "fetching"]
    /\ UNCHANGED <<recVars, entryVars, taskVars, esVars, signals, room_connected,
                   histVars, cf>>

\* the fetch of _start_call_recording returned (252-271) and line 206
\* stores the result in _session_id; an exception of the fetch gives None
P_Fetched(p) ==
    /\ Quiet
    /\ ppc[p] = "fetching"
    /\ ppc' = [ppc EXCEPT ![p] = "done"]
    /\ \E fetched \in FetchResults :
         /\ last_decision' = IF fetched.exc THEN "error"
                             ELSE IF Get(fetched.val, "opt_out_sensitive_data", FALSE)
                             THEN "optout" ELSE "record"
         /\ IF ~fetched.exc /\ RecordingAllowed(fetched.val)
            THEN /\ active_calls' = start_call_recording(active_calls, next_call_id,
                                                       "+33644644937", CallType(p))
                 /\ session_id' = next_call_id
                 /\ next_call_id' = next_call_id + 1
            ELSE /\ session_id' = 0
                 /\ UNCHANGED <<active_calls, next_call_id>>
    /\ UNCHANGED <<send_log, inflight, last_op, epc, handlers_on, agent_session,
                   pipeline, agent_config, interaction_stage, voice_handler, taskVars,
                   esVars, signals, room_connected, close_calls, disconnect_calls,
                   recorder_calls, stage_updates, silent_for, timeout_silence,
                   voice_seen, voice_late, cf>>

\* handle_signal (696-698): a new task runs end_session("system_interrupt")
X_Signal ==
    /\ Quiet
    /\ handlers_on
    /\ signals < MaxSignals
    /\ signals' = signals + 1
    /\ BeginEndSession(AllSigNames[signals + 1], "system_interrupt", task, active_calls)
    /\ UNCHANGED <<BeginRest, epc, agent_config, task>>

\* update_interaction_stage (126-139), called while the pipeline runs
S_UpdateStage(stage) ==
    /\ Quiet
    /\ pipeline = "started"
    /\ stage_updates < MaxTimeline
    /\ stage_updates' = stage_updates + 1
    /\ interaction_stage' = stage
    /\ IF session_id # 0
       THEN /\ active_calls' = update_call_stage(active_calls, session_id, stage)
            /\ recorder_calls' = recorder_calls + 1
       ELSE UNCHANGED <<active_calls, recorder_calls>>
    /\ UNCHANGED <<next_call_id, send_log, inflight, last_op, epc, handlers_on,
                   session_id, agent_session, pipeline, agent_config, voice_handler,
                   taskVars, esVars, envVars, close_calls, disconnect_calls,
                   silent_for, timeout_silence, voice_seen, voice_late, last_decision, cf>>

SessNext ==
    \/ E_Connected
    \/ E_ConnectRaises
    \/ E_ConfigLoaded
    \/ E_PipelineStarted
    \/ E_PipelineStartRaises
    \/ E_WelcomeDone
    \/ E_WelcomeRaises
    \/ \E p \in Participants : P_Connected(p)
    \/ \E p \in Participants : P_Fetched(p)
    \/ X_Signal
    \/ \E stage \in Stages : S_UpdateStage(stage)
    \/ \E t \in Tasks : T_Start(t)
    \/ T_DurationElapsed
    \/ T_SilenceTimeout
    \/ T_VoiceActivity
    \/ \E t \in Tasks : T_FarewellDone(t)
    \/ \E t \in Tasks : T_FarewellRaises(t)
    \/ \E t \in Tasks : T_GraceDone(t)
    \/ \E t \in Tasks : T_ReceiveCancel(t)
    \/ \E c \in Callers : ES_AcloseDone(c)
    \/ \E c \in Callers : ES_SendDone(c)
    \/ \E c \in Callers : ES_DisconnectDone(c)
    \/ \E c \in Callers : ES_DisconnectRaises(c)
    \/ \E c \in Callers : ES_SleepDone(c)
    \/ Tick

(***************************************************************************)
(* Properties of the session                                               *)
(***************************************************************************)
OthersIdle(c) == \A d \in Callers \ {c} : es_pc[d] = "idle"

CalledEndSession == {c \in Callers : es_pc[c] # "idle"}

\* every record handed to send_call_history carries this termination reason
SentWith(reason) ==
    \A i \in DOMAIN send_log : send_log[i].termination_reason = reason

\* C1: however end_session calls interleave, one teardown executes: the
\* pipeline session is closed once, each record is transmitted once and
\* room.disconnect() is called once; later calls do nothing
C1_OneTeardown ==
    /\ close_calls <= 1
    /\ disconnect_calls <= 1
    /\ \A id \in CallIds : SendsOf(id) <= 1

\* C3: once the silence monitor has called end_session("silence_timeout")
\* and no other caller interferes, the call runs to completion: when the
\* monitor task is over the pipeline is closed, every transmitted record
\* has reason "silence_timeout" and room.disconnect() has been called
C3_SilenceEndCompletes ==
    (task["sil"] = "done" /\ es_pc["sil"] # "idle" /\ OthersIdle("sil"))
        => /\ es_pc["sil"] = "done"
           /\ pipeline = "closed"
           /\ SentWith("silence_timeout")
           /\ disconnect_calls >= 1

\* C4: once the duration monitor has called
\* end_session("max_duration_exceeded") and no other caller interferes, the
\* session reaches the ended state: pipeline closed, every transmitted
\* record has reason "max_duration_exceeded", room.disconnect() called
C4_DurationEndCompletes ==
    (task["dur"] = "done" /\ es_pc["dur"] # "idle" /\ OthersIdle("dur"))
        => /\ es_pc["dur"] = "done"
           /\ pipeline = "closed"
           /\ SentWith("max_duration_exceeded")
           /\ disconnect_calls >= 1

BothMonitors ==
    /\ agent_config # EmptyDict
    /\ \A t \in Tasks : CreatedTasks(agent_config)[t] = "created"
    /\ agent_config.silence_duration < agent_config.max_call_duration

\* C5: with both monitors enabled, silence_duration < max_call_duration and
\* no voice activity, a session whose silence monitor reached end_session
\* terminates with "silence_timeout": that end_session returns, the duration
\* monitor never calls end_session and its task is over
C5_SilenceWinsOverDuration ==
    (/\ BothMonitors
     /\ ~voice_seen
     /\ es_pc["sil"] # "idle"
     /\ \A c \in SigNames \cup {"entry"} : es_pc[c] = "idle"
     /\ task["sil"] = "done")
        => /\ es_pc["sil"] = "done"
           /\ es_pc["dur"] = "idle"
           /\ Done(task, "dur")
           /\ SentWith("silence_timeout")

\* C6: the silence wait times out only after a complete silence_duration
\* has passed since the wait was last (re)started by a voice-activity signal
C6_FullWindowAfterVoice ==
    timeout_silence # -1 =>
        timeout_silence >= SetTimer(agent_config.silence_duration)

\* a voice-activity signal restarted the wait and the wait then timed out
C6_Witness ==
    /\ voice_seen
    /\ timeout_silence # -1
    /\ task["sil"] = "grace"

\* C34: once the silence wait has timed out with the session active the
\* termination is committed: a voice-activity signal that arrives during the
\* farewell generation or the grace sleep changes nothing for the monitor,
\* the monitor never goes back to waiting, and unless it is cancelled it
\* leaves the grace sleep only by calling end_session("silence_timeout")
C34_SilenceTimeoutIsCommitted ==
    [][/\ task["sil"] \in {"farewell", "grace", "ending"} => task'["sil"] # "waiting"
       /\ (task["sil"] \in {"farewell", "grace"} /\ ~voice_late /\ voice_late')
            => UNCHANGED <<task, timer, cancel_req, es_pc>>
       /\ (task["sil"] = "grace" /\ task'["sil"] # "grace" /\ ~cancel_req["sil"])
            => /\ task'["sil"] = "ending"
               /\ es_pc'["sil"] # "idle"
               /\ es_pc'["sil"] = "aclose" => es_reason'["sil"] = "silence_timeout"]_vars

\* a voice-activity signal came after the timeout and the monitor has
\* called end_session("silence_timeout")
C34_Witness ==
    /\ voice_late
    /\ task["sil"] = "ending"
    /\ es_pc["sil"] = "aclose"
    /\ es_reason["sil"] = "silence_timeout"

\* C7: when the fetched configuration opts out of recording,
\* _start_call_recording gives None and adds no record, and while that
\* decision stands no step calls the recorder or hands a record to
\* send_call_history
C7_OptOutRecordsNothing ==
    [][/\ (ppc' # ppc /\ last_decision' = "optout")
            => (session_id' = 0 /\ active_calls' = active_calls)
       /\ (last_decision = "optout" /\ last_decision' = "optout")
            => /\ recorder_calls' = recorder_calls
               /\ send_log' = send_log
               /\ active_calls' = active_calls]_vars

\* an opted-out session had a stage update and a complete end_session
C7_Witness ==
    /\ last_decision = "optout"
    /\ session_id = 0
    /\ stage_updates > 0
    /\ \E c \in Callers : es_pc[c] = "done"
    /\ recorder_calls = 0
    /\ send_log = <<>>

\* C8: when AgentSession.start is invoked the configuration is resolved and,
\* unless recording is opted out or its fetch failed, the call record is in
\* active_calls
C8_RecordBeforePipelineStart ==
    (epc = "starting" /\ CalledEndSession = {})
        => /\ agent_config # EmptyDict
           /\ last_decision \in {"optout", "error"}
                 \/ session_id \in DOMAIN active_calls

(***************************************************************************)
(* Call direction of one joining participant (SpecDirection):              *)
(* handle_participant_connected, then _start_call_recording with its       *)
(* configuration lookup, then start_call_recording.                        *)
(***************************************************************************)
\* values a "direction" or "call_type" metadata field may carry
DirectionValues ==
    {"in", "incoming", "inbound", "out", "outgoing", "outbound", "sideways"}

\* json.loads(participant.metadata): a dict with the fields that are present
ParsedMetadata(direction, call_type) ==
    [k \in (IF direction = NoneVal THEN {} ELSE {"direction"})
           \cup (IF call_type = NoneVal THEN {} ELSE {"call_type"}) |->
        IF k = "direction" THEN direction ELSE call_type]

\* the directions the remote service holds a configuration for
PhoneDatas ==
    {[inbound |-> "cfg-in", outbound |-> "cfg-out"],
     [inbound |-> "cfg-in"],
     [outbound |-> "cfg-out"]}

\* handle_participant_connected (187-194): the call type of the participant
ParticipantCallType(kind) == IF kind = "sip" THEN "inbound" ELSE "web"

\* handle_participant_connected (202-203): the stored participant context
ParticipantContext(context, call_type) ==
    [k \in DOMAIN context \cup {"call_type"} |->
        IF k = "call_type" THEN Get(context, "call_type", call_type)
        ELSE context[k]]

\* get_agent_config_from_room (175-183): the direction handed to the fetch
LookupDirection(participant_metadata) ==
    IF Truthy(participant_metadata)
    THEN Get(participant_metadata, "direction", "inbound")
    ELSE NoneVal

\* fetch_agent_config_by_phone (123-137): the variant of phone_data returned
SelectedVariant(phone_data, call_direction) ==
    IF call_direction # NoneVal /\ call_direction \in DOMAIN phone_data
    THEN call_direction
    ELSE IF "inbound" \in DOMAIN phone_data THEN "inbound"
    ELSE IF "outbound" \in DOMAIN phone_data THEN "outbound"
    ELSE NoneVal

DrInit ==
    \E kind \in {"sip", "web"},
       direction \in DirectionValues \cup {NoneVal},
       call_type \in {NoneVal, "outgoing", "inbound"},
       phone_data \in PhoneDatas :
        cf = [pc |-> "joined", kind |-> kind,
              metadata |-> ParsedMetadata(direction, call_type),
              phone_data |-> phone_data,
              context |-> EmptyDict, call_type |-> NoneVal,
              call_direction |-> NoneVal, variant |-> NoneVal,
              record |-> EmptyDict]

\* handle_participant_connected up to the await of _start_call_recording
Dr_Joined ==
    /\ cf.pc = "joined"
    /\ LET call_type == ParticipantCallType(cf.kind)
       IN cf' = [cf EXCEPT !.pc = "context",
                           !.call_type = call_type,
                           !.context = ParticipantContext(cf.metadata, call_type)]
    /\ UNCHANGED <<recVars, sessVars>>

\* _start_call_recording: the configuration lookup with the stored context
Dr_Lookup ==
    /\ cf.pc = "context"
    /\ LET call_direction == LookupDirection(cf.context)
       IN cf' = [cf EXCEPT !.pc = "looked_up",
                           !.call_direction = call_direction,
                           !.variant = SelectedVariant(cf.phone_data, call_direction)]
    /\ UNCHANGED <<recVars, sessVars>>

\* _start_call_recording: start_call_recording(config_id, room, call_type)
Dr_Record ==
    /\ cf.pc = "looked_up"
    /\ cf' = [cf EXCEPT !.pc = "recorded",
                        !.record = CallRecord(1, "+33644644937", cf.call_type)]
    /\ UNCHANGED <<recVars, sessVars>>

DrNext ==
    \/ Dr_Joined
    \/ Dr_Lookup
    \/ Dr_Record

\* the direction a metadata value stands for
C11_Normalized(v) ==
    IF v \in {"out", "outgoing", "outbound"} THEN "outbound" ELSE "inbound"

\* the metadata value that states the direction: "direction", else "call_type"
C11_Stated ==
    Get(cf.metadata, "direction", Get(cf.metadata, "call_type", NoneVal))

\* C11: for a telephony participant the direction used for the configuration
\* lookup and the direction of the call record are "outbound" when the
\* metadata states out/outgoing/outbound and "inbound" for every other or
\* absent value
C11_DirectionNormalized ==
    (cf.pc = "recorded" /\ cf.kind = "sip") =>
        /\ cf.call_direction = C11_Normalized(C11_Stated)
        /\ cf.record.call_type = C11_Normalized(C11_Stated)

(***************************************************************************)
(* The welcome of one session (SpecWelcome): _load_config, then            *)
(* AgentSession.start and the welcome reply of start_session.              *)
(***************************************************************************)
\* values of "welcome_message_type" in a raw configuration, None when absent
WelcomeTypes ==
    {NoneVal, "human_initiates", "ai_initiates", "ai_static", "user_initiates"}

\* a raw configuration with the welcome fields that are present
WelcomeRaw(welcome_message_type, static_message) ==
    [k \in (IF welcome_message_type = NoneVal THEN {} ELSE {"welcome_message_type"})
           \cup (IF static_message = NoneVal THEN {} ELSE {"static_message"})
           \cup {"voice_provider"} |->
        IF k = "welcome_message_type" THEN welcome_message_type
        ELSE IF k = "static_message" THEN static_message
        ELSE "cartesia"]

\* start_session 525-527: the call made on the pipeline session to welcome
\* the caller; the instructions are the f-string's literal and its value
WelcomeReply(cfg) ==
    [call |-> "generate_reply",
     instructions |-> <<"Greet the user with: ", cfg.welcome_message>>]

WlInit ==
    \E welcome_message_type \in WelcomeTypes, static_message \in {NoneVal, "Bonjour", "Welcome to Camie", ""} :
        cf = [pc |-> "config",
              raw_config |-> WelcomeRaw(welcome_message_type, static_message),
              config |-> EmptyDict,
              emitted |-> <<>>]

\* start_session 473: _load_config builds the AgentConfig
Wl_Load ==
    /\ cf.pc = "config"
    /\ cf' = [cf EXCEPT !.pc = "loaded", !.config = AgentConfig(cf.raw_config)]
    /\ UNCHANGED <<recVars, sessVars>>

\* AgentSession.start returned: the welcome call is made (506-527)
Wl_Started ==
    /\ cf.pc = "loaded"
    /\ cf' = [cf EXCEPT !.pc = "welcome",
                        !.emitted = Append(@, WelcomeReply(cf.config))]
    /\ UNCHANGED <<recVars, sessVars>>

\* AgentSession.start raised: start_session is left
Wl_StartRaises ==
    /\ cf.pc = "loaded"
    /\ cf' = [cf EXCEPT !.pc = "failed"]
    /\ UNCHANGED <<recVars, sessVars>>

\* the welcome call returned: the session is active
Wl_WelcomeDone ==
    /\ cf.pc = "welcome"
    /\ cf' = [cf EXCEPT !.pc = "active"]
    /\ UNCHANGED <<recVars, sessVars>>

\* the welcome call raised
Wl_WelcomeRaises ==
    /\ cf.pc = "welcome"
    /\ cf' = [cf EXCEPT !.pc = "failed"]
    /\ UNCHANGED <<recVars, sessVars>>

WlNext ==
    \/ Wl_Load
    \/ Wl_Started
    \/ Wl_StartRaises
    \/ Wl_WelcomeDone
    \/ Wl_WelcomeRaises

\* C17: what the session emits on becoming active follows the welcome mode:
\* nothing with human_initiates, one generated greeting with ai_initiates,
\* and the configured welcome message itself, spoken as it is, with ai_static
C17_WelcomeFollowsMode ==
    cf.pc = "active" =>
        /\ cf.config.welcome_type = "human_initiates" => cf.emitted = <<>>
        /\ cf.config.welcome_type = "ai_initiates"
              => (Len(cf.emitted) = 1 /\ cf.emitted[1].call = "generate_reply")
        /\ cf.config.welcome_type = "ai_static"
              => cf.emitted = <<[call |-> "say", text |-> cf.config.welcome_message]>>

(***************************************************************************)
(* Stage updates of one session (SpecStages): the room is joined, the      *)
(* participant handler decides about recording, the conversation moves    *)
(* through stages, and a signal ends the session.                          *)
(***************************************************************************)
\* update_interaction_stage (126-139) on a connected session
St_UpdateStage(stage) ==
    /\ room_connected
    /\ stage_updates < MaxStageUpdates
    /\ stage_updates' = stage_updates + 1
    /\ interaction_stage' = stage
    /\ IF session_id # 0
       THEN /\ active_calls' = update_call_stage(active_calls, session_id, stage)
            /\ recorder_calls' = recorder_calls + 1
       ELSE UNCHANGED <<active_calls, recorder_calls>>
    /\ UNCHANGED <<next_call_id, send_log, inflight, last_op, epc, handlers_on,
                   session_id, agent_session, pipeline, agent_config, voice_handler,
                   taskVars, esVars, envVars, close_calls, disconnect_calls,
                   silent_for, timeout_silence, voice_seen, voice_late, last_decision, cf>>

StNext ==
    \/ E_Connected
    \/ \E p \in Participants : P_Connected(p)
    \/ \E p \in Participants : P_Fetched(p)
    \/ \E stage \in Stages : St_UpdateStage(stage)
    \/ X_Signal
    \/ \E c \in Callers : ES_SendDone(c)
    \/ \E c \in Callers : ES_DisconnectDone(c)
    \/ \E c \in Callers : ES_DisconnectRaises(c)
    \/ \E c \in Callers : ES_SleepDone(c)

\* the stage of the last entry of a record's timeline
LastStage(rec) == rec.stage_timeline[Len(rec.stage_timeline)].stage

\* C18: a stage update on an active record appends one {stage, timestamp}
\* entry after the entries already there and sets final_stage to that
\* stage, so final_stage is the stage of the last timeline entry; with
\* recording disabled the update changes the session's interaction stage
\* and leaves active_calls as it is
C18_StageUpdateAppends ==
    [][/\ stage_updates' # stage_updates =>
            IF session_id \in DOMAIN active_calls
            THEN LET old == active_calls[session_id].stage_timeline
                     new == active_calls'[session_id].stage_timeline
                 IN /\ Len(new) = Len(old) + 1
                    /\ SubSeq(new, 1, Len(old)) = old
                    /\ DOMAIN new[Len(new)] = {"stage", "timestamp"}
                    /\ new[Len(new)].stage = interaction_stage'
                    /\ active_calls'[session_id].final_stage = interaction_stage'
            ELSE active_calls' = active_calls
       /\ \A call_id \in DOMAIN active_calls' :
            active_calls'[call_id].stage_timeline # <<>>
                => active_calls'[call_id].final_stage = LastStage(active_calls'[call_id])]_vars

\* a recorded session went through two different stages, in that order
C18_Witness ==
    /\ session_id \in DOMAIN active_calls
    /\ Len(active_calls[session_id].stage_timeline) >= 2
    /\ active_calls[session_id].stage_timeline[1].stage = "qualification"
    /\ active_calls[session_id].stage_timeline[2].stage = "greeting"
    /\ active_calls[session_id].final_stage = LastStage(active_calls[session_id])

(***************************************************************************)
(* Tool-config normalization (SpecTools): one raw "tools" dict is drawn    *)
(* and _prepare_tool_configs is applied to it.                             *)
(***************************************************************************)
\* the raw "tools" dicts: every known tool absent or with one raw value,
\* tagged with its type
RawToolsConfigs ==
    LET RawToolValues ==
            {[kind |-> "bool", val |-> TRUE],
             [kind |-> "bool", val |-> FALSE],
             [kind |-> "dict", val |-> [enabled |-> TRUE, url |-> "https://x"]],
             [kind |-> "dict", val |-> [enabled |-> FALSE]],
             [kind |-> "dict", val |-> [url |-> "https://y"]],
             [kind |-> "other"]}
    IN UNION {[present -> RawToolValues] : present \in SUBSET ToolNames}

TlInit ==
    \E tools_config \in RawToolsConfigs :
        cf = [pc |-> "raw", tools_config |-> tools_config, tools |-> EmptyDict]

\* _load_config 318: tools = self._prepare_tool_configs(raw_config.get("tools", {}))
Tl_Prepare ==
    /\ cf.pc = "raw"
    /\ cf' = [cf EXCEPT !.pc = "prepared",
                        !.tools = _prepare_tool_configs(cf.tools_config)]
    /\ UNCHANGED <<recVars, sessVars>>

\* C19: the normalized tools have one entry for each known tool name; a
\* boolean b gives (enabled = b, url = None), a structured dict gives its
\* enabled flag and its url, and an absent tool or a value of another type
\* gives a disabled entry without url
C19_ToolConfigNormalized ==
    cf.pc = "prepared" =>
        /\ DOMAIN cf.tools = ToolNames
        /\ \A tool_name \in ToolNames :
             LET out == cf.tools[tool_name]
             IN IF tool_name \notin DOMAIN cf.tools_config
                THEN ~out.enabled /\ out.url = NoneVal
                ELSE LET raw == cf.tools_config[tool_name]
                     IN CASE raw.kind = "bool" ->
                                out.enabled = raw.val /\ out.url = NoneVal
                          [] raw.kind = "dict" ->
                                /\ out.enabled = Get(raw.val, "enabled", FALSE)
                                /\ out.url = Get(raw.val, "url", NoneVal)
                          [] OTHER -> ~out.enabled /\ out.url = NoneVal

\* {"sms": true} and {"email": {"enabled": true, "url": "https://x"}} were
\* normalized: both enabled, only the structured one with a url
C19_Witness ==
    /\ cf.pc = "prepared"
    /\ DOMAIN cf.tools_config = {"sms", "email"}
    /\ cf.tools_config["sms"] = [kind |-> "bool", val |-> TRUE]
    /\ cf.tools_config["email"].kind = "dict"
    /\ cf.tools["sms"].enabled /\ cf.tools["sms"].url = NoneVal
    /\ cf.tools["email"].enabled /\ cf.tools["email"].url = "https://x"

(***************************************************************************)
(* Identifier extraction from the room name (SpecRoom).  A room name is a  *)
(* sequence of characters; re.search is computed as the leftmost match.    *)
(***************************************************************************)
MinPhoneDigits == 7
MaxPhoneDigits == 15
NationalLength == 9

DigitChars == {"0", "1", "2", "3", "4", "5", "6", "7", "8", "9"}

\* a Python value that is None or a str
NoStr == [kind |-> "none"]
Str(chars) == [kind |-> "str", val |-> chars]

TwilioPrefix == <<"t", "w", "i", "l", "i", "o", "-">>
UnknownRoom == <<"u", "n", "k", "n", "o", "w", "n">>

\* last position of the run of digits that begins at j, j - 1 when s[j] is
\* no digit: what a greedy [0-9]+ consumes
DigitRunEnd(s, j) ==
    CHOOSE k \in (j - 1)..Len(s) :
        /\ \A m \in j..k : s[m] \in DigitChars
        /\ k = Len(s) \/ s[k + 1] \notin DigitChars

\* where the digits of twilio-\+?([0-9]+)- begin when the pattern is tried at i
TwilioDigitsFrom(s, i) ==
    IF i + 7 <= Len(s) /\ s[i + 7] = "+" THEN i + 8 ELSE i + 7

\* twilio-\+?[0-9]+- matches at position i
TwilioMatchAt(s, i) ==
    LET j == TwilioDigitsFrom(s, i)
        k == DigitRunEnd(s, j)
    IN /\ i + Len(TwilioPrefix) - 1 <= Len(s)
       /\ SubSeq(s, i, i + Len(TwilioPrefix) - 1) = TwilioPrefix
       /\ k >= j
       /\ k + 1 <= Len(s)
       /\ s[k + 1] = "-"

\* the leftmost position of a set of match positions
Leftmost(positions) == CHOOSE i \in positions : \A j \in positions : i <= j

\* room_extractor.extract_phone_number
extract_phone_number(room_name) ==
    IF room_name.kind = "none" \/ room_name.val = <<>> \/ room_name.val = UnknownRoom
    THEN NoStr
    ELSE LET s == room_name.val
             twilio == {i \in 1..Len(s) : TwilioMatchAt(s, i)}
             plus == {i \in 1..Len(s) : s[i] = "+" /\ DigitRunEnd(s, i + 1) >= i + 1}
             runs == {i \in 1..Len(s) : DigitRunEnd(s, i) >= i + MinPhoneDigits - 1}
         IN IF twilio # {}
            THEN LET j == TwilioDigitsFrom(s, Leftmost(twilio))
                 IN Str(<<"+">> \o SubSeq(s, j, DigitRunEnd(s, j)))
            ELSE IF plus # {}
            THEN LET j == Leftmost(plus) + 1
                 IN Str(<<"+">> \o SubSeq(s, j, DigitRunEnd(s, j)))
            ELSE IF runs # {}
            THEN LET i == Leftmost(runs)
                     k == DigitRunEnd(s, i)
                     last == IF k > i + MaxPhoneDigits - 1
                             THEN i + MaxPhoneDigits - 1 ELSE k
                     number == SubSeq(s, i, last)
                 IN IF Len(number) > NationalLength
                    THEN Str(<<"+">> \o number) ELSE Str(number)
            ELSE NoStr

extract_phone_from_room_name_first_digits(room_name) ==
    IF room_name.kind = "none" \/ room_name.val = <<>>
    THEN NoStr
    ELSE LET s == room_name.val
             twilio == {i \in 1..Len(s) : TwilioMatchAt(s, i)}
         IN IF twilio # {}
            THEN LET i == Leftmost(twilio)
                 IN Str(SubSeq(s, i + 7, i + 8))
            ELSE NoStr

\* config_fetcher.extract_phone_from_room_name: twilio-(\+?\d+)-
extract_phone_from_room_name(room_name) ==
    IF room_name.kind = "none" \/ room_name.val = <<>>
    THEN NoStr
    ELSE LET s == room_name.val
             twilio == {i \in 1..Len(s) : TwilioMatchAt(s, i)}
         IN IF twilio # {}
            THEN LET i == Leftmost(twilio)
                 IN Str(SubSeq(s, i + 7, DigitRunEnd(s, TwilioDigitsFrom(s, i))))
            ELSE NoStr

\* parts room names are put together from
RoomDigits == {<<>>, <<"3", "3", "6", "4", "4", "6", "4", "4", "9", "3", "7">>, <<"1", "5", "6", "3", "7", "4", "8">>, <<"1", "2", "3">>, <<"1", "2", "3", "4", "5", "6", "7", "8", "9", "0", "1", "2", "3", "4", "5", "6">>}
RoomSuffixes == {<<"a", "b", "c", "d", "e">>, <<"S", "T", "_", "L", "y", "7">>, <<"2", "1", "f", "2", "-", "0", "1", "1", "f">>, <<>>}

\* the room names of the model: None, "unknown", "invalid-room-name" and
\* prefix [+] digits separator suffix
RoomNames ==
    {NoStr, Str(UnknownRoom), Str(<<"i", "n", "v", "a", "l", "i", "d", "-", "r", "o", "o", "m", "-", "n", "a", "m", "e">>)}
    \cup {Str(prefix \o plus \o digits \o sep \o suffix) :
            prefix \in {TwilioPrefix, <<"w", "e", "b", "-">>,
                         <<"s", "o", "m", "e", "-", "p", "r", "e", "f", "i", "x", "-">>,
                         <<>>},
            plus \in {<<"+">>, <<>>},
            digits \in RoomDigits, sep \in {<<"-">>, <<"_">>, <<>>}, suffix \in RoomSuffixes}

\* the metadata of the joining SIP caller is none or a direction; stored
\* tells whether the participant handler has stored its context when the
\* configuration is looked up: _load_config may run before the caller joins
RmInit ==
    \E room_name \in RoomNames,
       metadata \in {EmptyDict, [direction |-> "outbound"]},
       stored \in BOOLEAN, phone_data \in PhoneDatas :
        cf = [pc |-> "joined", room_name |-> room_name, metadata |-> metadata,
              stored |-> stored, phone_data |-> phone_data,
              config_id |-> NoStr, call_type |-> NoneVal,
              phone_number |-> NoStr, call_direction |-> NoneVal,
              variant |-> NoneVal]

\* handle_participant_connected 187-203 for a SIP participant
Rm_ConfigId ==
    /\ cf.pc = "joined"
    /\ cf' = [cf EXCEPT !.pc = "context",
                        !.call_type = ParticipantCallType("sip"),
                        !.config_id = extract_phone_number(cf.room_name)]
    /\ UNCHANGED <<recVars, sessVars>>

\* get_agent_config_from_room with the participant context, None while the
\* handler has not stored it; without a phone number and a conf_id it
\* returns before any direction is computed
Rm_Lookup ==
    /\ cf.pc = "context"
    /\ LET phone_number == extract_phone_from_room_name(cf.room_name)
           context == IF cf.stored
                      THEN ParticipantContext(cf.metadata, cf.call_type)
                      ELSE EmptyDict
           call_direction == LookupDirection(context)
       IN cf' = IF phone_number = NoStr
                THEN [cf EXCEPT !.pc = "looked_up"]
                ELSE [cf EXCEPT !.pc = "looked_up",
                                !.phone_number = phone_number,
                                !.call_direction = call_direction,
                                !.variant = SelectedVariant(cf.phone_data,
                                                            call_direction)]
    /\ UNCHANGED <<recVars, sessVars>>

RmNext ==
    \/ Rm_ConfigId
    \/ Rm_Lookup

\* room names of the form twilio-+<digits>-<suffix>, with their digits
C20_TwilioForm(digits) ==
    {Str(TwilioPrefix \o <<"+">> \o digits \o <<"-">> \o suffix) :
        suffix \in RoomSuffixes}

\* a room name without any digit holds no phone-like token
C20_NoPhoneToken(room_name) ==
    \/ room_name.kind = "none"
    \/ room_name.val \in {<<>>, UnknownRoom}
    \/ \A i \in 1..Len(room_name.val) : room_name.val[i] \notin DigitChars

C33_IdentifiersAgree ==
    cf.pc = "looked_up" => cf.config_id = cf.phone_number

(***************************************************************************)
(* Component construction (SpecFactory): start_session 491-493 calls       *)
(* ModelFactory.create_stt, create_llm and create_tts in turn; a component *)
(* is modelled by the constructor call that made it.                       *)
(***************************************************************************)
\* str.lower() on the provider names of the model
Lower(name) ==
    IF name = "Deepgram" THEN "deepgram"
    ELSE IF name = "OpenAI" THEN "openai"
    ELSE name

\* ModelFactory.create_stt; a provider of None has no lower()
create_stt(config) ==
    LET raw == Get(config, "provider", "")
        provider == IF Lower(raw) = "" THEN "deepgram" ELSE Lower(raw)
    IN IF raw = NoneVal THEN Raised
       ELSE IF provider = "deepgram"
       THEN Returned([cls |-> "deepgram.STT",
                      kwargs |-> [model |-> Get(config, "model", "nova-3"),
                                  language |-> Get(config, "language", "multi")]])
       ELSE IF provider = "elevenlabs"
       THEN Returned([cls |-> "elevenlabs.STT",
                      kwargs |-> [language_code |-> Get(config, "language", "auto")]])
       ELSE Returned([cls |-> "deepgram.STT",
                      kwargs |-> [model |-> "nova-3", language |-> "multi"]])

\* ModelFactory.create_llm
create_llm(config) ==
    LET raw == Get(config, "provider", "")
        provider == IF Lower(raw) = "" THEN "openai" ELSE Lower(raw)
    IN IF raw = NoneVal THEN Raised
       ELSE IF provider = "openai"
       THEN Returned([cls |-> "openai.LLM",
                      kwargs |-> [model |-> Get(config, "model", "gpt-4o-mini"),
                                  temperature |-> Get(config, "temperature", "0.7")]])
       ELSE Returned([cls |-> "openai.LLM",
                      kwargs |-> [model |-> "gpt-4o-mini", temperature |-> "0.7"]])

\* ModelFactory.create_tts
create_tts(config) ==
    LET raw == Get(config, "provider", "")
        provider == IF Lower(raw) = "" THEN "cartesia" ELSE Lower(raw)
    IN IF raw = NoneVal THEN Raised
       ELSE IF provider = "elevenlabs"
       THEN Returned([cls |-> "elevenlabs.TTS",
                      kwargs |-> [model |-> Get(config, "model", "eleven_turbo_v2_5"),
                                  language |-> Get(config, "language", "en"),
                                  voice_id |-> Get(config, "voice", "EXAVITQu4vr4xnSDxMaL")]])
       ELSE IF provider = "cartesia"
       THEN Returned([cls |-> "cartesia.TTS",
                      kwargs |-> [model |-> Get(config, "model", "cartesia-tts-1"),
                                  voice |-> Get(config, "voice", "female-01")]])
       ELSE Returned([cls |-> "cartesia.TTS",
                      kwargs |-> [model |-> NoneVal, language |-> "fr",
                                  voice |-> "5c3c89e5-535f-43ef-b14d-f8ffe148c1f0"]])

\* the three component configurations of one call, and the plugin
\* constructors that raise when they are called
MfInit ==
    \E stt_config \in {EmptyDict, [provider |-> ""], [provider |-> NoneVal],
                       [provider |-> "deepgram"],
                       [provider |-> "Deepgram", model |-> "nova-2"],
                       [provider |-> "deepgram", model |-> "nova-2", language |-> "fr"],
                       [provider |-> "elevenlabs", language |-> "fr"],
                       [provider |-> "elevenlabs", model |-> "scribe_v1"],
                       [provider |-> "whisper", model |-> "large"],
                       [model |-> "nova-2", language |-> "fr"]},
       llm_config \in {EmptyDict, [provider |-> ""], [provider |-> NoneVal],
                       [provider |-> "openai"],
                       [provider |-> "OpenAI", model |-> "gpt-4o", temperature |-> "0.3"],
                       [provider |-> "anthropic", model |-> "claude"],
                       [model |-> "gpt-4o"], [temperature |-> "0.3"]},
       tts_config \in {EmptyDict, [provider |-> NoneVal],
                       [provider |-> "elevenlabs", voice |-> "v1"],
                       [provider |-> "cartesia", model |-> "sonic"],
                       [provider |-> "azure"]},
       raising \in SUBSET {"stt", "llm", "tts"} :
        cf = [pc |-> "stt", stt_config |-> stt_config, llm_config |-> llm_config,
              tts_config |-> tts_config, raising |-> raising,
              stt |-> EmptyDict, llm |-> EmptyDict, tts |-> EmptyDict]

\* start_session 491
Mf_CreateStt ==
    /\ cf.pc = "stt"
    /\ LET made == create_stt(cf.stt_config)
       IN cf' = IF made.exc \/ "stt" \in cf.raising
                THEN [cf EXCEPT !.pc = "raised"]
                ELSE [cf EXCEPT !.pc = "llm", !.stt = made.val]
    /\ UNCHANGED <<recVars, sessVars>>

\* start_session 492
Mf_CreateLlm ==
    /\ cf.pc = "llm"
    /\ LET made == create_llm(cf.llm_config)
       IN cf' = IF made.exc \/ "llm" \in cf.raising
                THEN [cf EXCEPT !.pc = "raised"]
                ELSE [cf EXCEPT !.pc = "tts", !.llm = made.val]
    /\ UNCHANGED <<recVars, sessVars>>

\* start_session 493; the components then go to AgentSession (495-503)
Mf_CreateTts ==
    /\ cf.pc = "tts"
    /\ LET made == create_tts(cf.tts_config)
       IN cf' = IF made.exc \/ "tts" \in cf.raising
                THEN [cf EXCEPT !.pc = "raised"]
                ELSE [cf EXCEPT !.pc = "built", !.tts = made.val]
    /\ UNCHANGED <<recVars, sessVars>>

MfNext ==
    \/ Mf_CreateStt
    \/ Mf_CreateLlm
    \/ Mf_CreateTts

\* C21: building the components always succeeds: no construction error
\* reaches start_session, whatever constructor raises and whatever provider
\* key the configuration lacks
C21_BuildNeverRaises == cf.pc # "raised"

\* the provider of a component configuration after lower() and the default
C22_Provider(config) ==
    IF "provider" \in DOMAIN config THEN Lower(config.provider) ELSE ""

\* C22: a missing, empty or unknown provider yields the default provider of
\* the component type (deepgram.STT, with nova-3 and multi for an empty
\* configuration; openai.LLM, with gpt-4o-mini and 0.7), and the model,
\* language or temperature configured for a known provider reaches the
\* constructor unchanged
C22_DefaultsAndPassThrough ==
    /\ Truthy(cf.stt) =>
         /\ C22_Provider(cf.stt_config) \notin {"deepgram", "elevenlabs"}
               => cf.stt.cls = "deepgram.STT"
         /\ cf.stt_config = EmptyDict
               => cf.stt.kwargs = [model |-> "nova-3", language |-> "multi"]
         /\ C22_Provider(cf.stt_config) \in {"deepgram", "elevenlabs"}
               => /\ "model" \in DOMAIN cf.stt_config
                       => \E k \in DOMAIN cf.stt.kwargs :
                             cf.stt.kwargs[k] = cf.stt_config.model
                  /\ "language" \in DOMAIN cf.stt_config
                       => \E k \in DOMAIN cf.stt.kwargs :
                             cf.stt.kwargs[k] = cf.stt_config.language
    /\ Truthy(cf.llm) =>
         /\ C22_Provider(cf.llm_config) # "openai"
               => cf.llm.cls = "openai.LLM"
         /\ cf.llm_config = EmptyDict
               => cf.llm.kwargs = [model |-> "gpt-4o-mini", temperature |-> "0.7"]
         /\ C22_Provider(cf.llm_config) = "openai"
               => /\ "model" \in DOMAIN cf.llm_config
                       => cf.llm.kwargs.model = cf.llm_config.model
                  /\ "temperature" \in DOMAIN cf.llm_config
                       => cf.llm.kwargs.temperature = cf.llm_config.temperature

(***************************************************************************)
(* Dynamic tools (SpecDynamicTools): ToolLoader.create_dynamic_tools on    *)
(* one response of get_tools_schema.  A tool schema is modelled by its     *)
(* type and by the shape of its "config": missing, a dict without          *)
(* "function", or a dict with a "function".                                *)
(***************************************************************************)
\* ToolLoader._parse_schema: schema.get on a missing config raises
\* AttributeError; a schema with a function goes through
\* _augment_parameters_for_type (118), whose ToolType is not a name that
\* tool_loader.py imports or defines: NameError
_parse_schema(schema, tool_type) ==
    IF schema = "missing" THEN Raised
    ELSE IF schema = "no_function" THEN Returned(NoneVal)
    ELSE Raised

\* create_tool_hanler: handler is bound only in the branches of the three
\* known types, "return handler" raises UnboundLocalError otherwise
create_tool_hanler(tool_schema) ==
    IF tool_schema.type \in {"query", "send_text", "google_calendar"}
    THEN Returned(tool_schema.type)
    ELSE Raised

\* ToolLoader.create_dynamic_tools on the response of get_tools_schema
create_dynamic_tools(response) ==
    LET RECURSIVE Loop(_, _)
        Loop(tools, tools_list) ==
            IF tools = <<>> THEN Returned(tools_list)
            ELSE LET tool_schema == Head(tools)
                     parsed_tool == _parse_schema(tool_schema.config, tool_schema.type)
                     tool_handler == create_tool_hanler(tool_schema)
                 IN IF parsed_tool.exc THEN Raised
                    ELSE IF parsed_tool.val = NoneVal
                    THEN Loop(Tail(tools), tools_list)
                    ELSE IF tool_handler.exc THEN Raised
                    ELSE Loop(Tail(tools), Append(tools_list, tool_handler.val))
    IN IF response.error THEN Returned(<<>>)
       ELSE Loop(response.tools, <<>>)

\* the responses of get_tools_schema: an error, or a batch of tool schemas
DtInit ==
    \E error \in BOOLEAN, n \in 0..MaxBatch :
        \E tools \in [1..n -> [type : {"query", "send_text", "hologram"},
                               config : {"missing", "no_function", "function"}]] :
            /\ error => n = 0
            /\ cf = [pc |-> "fetched",
                     response |-> [error |-> error, tools |-> tools],
                     result |-> Returned(<<>>)]

\* create_dynamic_tools 138-151 after the await of get_tools_schema
Dt_Create ==
    /\ cf.pc = "fetched"
    /\ cf' = [cf EXCEPT !.pc = "done",
                        !.result = create_dynamic_tools(cf.response)]
    /\ UNCHANGED <<recVars, sessVars>>

\* a tool schema with a function and a recognized type
C23_WellFormed(tool_schema) ==
    /\ tool_schema.config = "function"
    /\ tool_schema.type \in {"query", "send_text", "google_calendar"}

\* C23: the batch call does not raise, and it returns one callable tool for
\* every well-formed schema of the batch, skipping the malformed and the
\* unrecognized ones
C23_BadToolsAreSkipped ==
    (cf.pc = "done" /\ ~cf.response.error) =>
        /\ ~cf.result.exc
        /\ Len(cf.result.val) =
              Cardinality({i \in DOMAIN cf.response.tools :
                              C23_WellFormed(cf.response.tools[i])})

(***************************************************************************)
(* Tool endpoints of concurrent calls (SpecEnviron): two Assistants of one *)
(* worker process load their tools and the model calls send_sms.           *)
(* os.environ is the environment of the process.                           *)
(***************************************************************************)
\* each call has its own ToolConfig for "sms"; nothing is set in os.environ
TcInit ==
    \E tools \in [{1, 2} -> [enabled : BOOLEAN,
                             url : {NoneVal, "https://sms.a", "https://sms.b"}]] :
        cf = [environ |-> [SMS_API_URL |-> NoneVal],
              tools |-> tools,
              pc |-> [c \in {1, 2} |-> "start"],
              loaded |-> [c \in {1, 2} |-> FALSE],
              posted_to |-> [c \in {1, 2} |-> NoneVal]]

\* Assistant._load_tools 424-431 (ToolLoader.load_tools 48-55 is the same):
\* an enabled sms tool with a url writes the url to os.environ
Tc_LoadTools(c) ==
    /\ cf.pc[c] = "start"
    /\ LET sms == cf.tools[c]
       IN cf' = [cf EXCEPT !.pc[c] = "running",
                           !.loaded[c] = sms.enabled,
                           !.environ.SMS_API_URL =
                               IF sms.enabled /\ sms.url # NoneVal
                               THEN sms.url ELSE @]
    /\ UNCHANGED <<recVars, sessVars>>

\* send_sms 60-95, called by the model of call c: the endpoint is read from
\* os.environ at the time of the call; without one nothing is posted
Tc_SendSms(c) ==
    /\ cf.pc[c] = "running"
    /\ cf.loaded[c]
    /\ cf' = [cf EXCEPT !.pc[c] = "sent",
                        !.posted_to[c] = cf.environ.SMS_API_URL]
    /\ UNCHANGED <<recVars, sessVars>>

TcNext ==
    \E c \in {1, 2} :
        \/ Tc_LoadTools(c)
        \/ Tc_SendSms(c)

\* C24: the endpoint a call's tool uses is the one of that call's own
\* ToolConfig, whatever tools a concurrent call loads
C24_ToolsUseOwnConfig ==
    \A c \in {1, 2} :
        cf.pc[c] = "sent" => cf.posted_to[c] = cf.tools[c].url

\* the suspension points of a monitor: the initial sleep or wait, the
\* farewell generation, the grace-period sleep
C25_Suspended(t) == task[t] \in {"waiting", "farewell", "grace"}

\* C25: a monitor task cancelled at one of its suspension points returns
\* (no CancelledError leaves it) without any teardown action in that step,
\* and a monitor that has returned without calling end_session stays so
C25_CancelledMonitorExitsCleanly ==
    [][\A t \in Tasks :
          /\ (C25_Suspended(t) /\ cancel_req[t] /\ ~cancel_req'[t])
                => /\ task'[t] = "done"
                   /\ es_pc'[t] = "idle"
                   /\ UNCHANGED <<close_calls, disconnect_calls, send_log,
                                  active_calls, pipeline, room_connected>>
          /\ (task[t] = "done" /\ es_pc[t] = "idle")
                => (task'[t] = "done" /\ es_pc'[t] = "idle")]_vars

\* the duration monitor is cancelled during its grace-period sleep, the
\* silence monitor during its wait, by an end_session of the signal handler
C25_Witness ==
    /\ task["dur"] = "grace" /\ cancel_req["dur"]
    /\ task["sil"] = "waiting" /\ cancel_req["sil"]
    /\ es_pc["sig1"] # "idle"

\* C27: once an end_session call has returned, the session never becomes
\* active: no monitor task is created and no pipeline session is
\* constructed or started in any later step
C27_NoActivityAfterTeardown ==
    [][(\E c \in Callers : es_pc[c] = "done")
          => /\ \A t \in Tasks : task'[t] = "created" => task[t] = "created"
             /\ pipeline' \in {"created", "started"} => pipeline' = pipeline]_vars

\* C28: whatever participant events one session receives it creates at
\* most one call record, and once an end_session call has returned no
\* record is left in active_calls
C28_OneRecordNoOrphan ==
    /\ next_call_id <= 2
    /\ (\E c \in Callers : es_pc[c] = "done") => DOMAIN active_calls = {}

\* C29: when start_session failed after monitor tasks were created and the
\* entrypoint has re-raised, no monitor task is left running and the room
\* disconnect was called, with or without a call record
C29_FailedStartLeavesNothing ==
    (epc = "raised" /\ \E t \in Tasks : task[t] # "none")
        => /\ \A t \in Tasks : task[t] \in {"none", "done", "cancelled"}
           /\ disconnect_calls >= 1

\* the entrypoint has caught an exception of initialize or start_session
EntryFailed == epc \in {"error_end", "raised"}

LastSent(log) == log[Len(log)]

\* C13: when the session ends because of a fatal session error caught by
\* the entrypoint, the call record transmitted for it has status "failed"
C13_FatalErrorIsFailed ==
    (CalledEndSession = {"entry"} /\ send_log # <<>>)
        => LastSent(send_log).status = "failed"

\* C14: the record end_session finalizes after closing the pipeline follows
\* its reason argument: without a reason the status is "completed" and the
\* outcomes carry the current interaction stage and successful = True; with
\* a reason the status is not "completed" and termination_reason is that
\* reason
C14_StatusFollowsReason ==
    [][\A c \in Callers :
          (es_pc[c] = "aclose" /\ es_pc'[c] = "send")
            => IF es_reason[c] = NoneVal
               THEN /\ LastSent(send_log').status = "completed"
                    /\ LastSent(send_log').final_stage = interaction_stage
                    /\ LastSent(send_log').successful = "True"
               ELSE /\ LastSent(send_log').status # "completed"
                    /\ LastSent(send_log').termination_reason = es_reason[c]]_vars

\* C15: when the transmission of the call record fails (send_call_history
\* gives an error response or raises), end_session goes on to its last
\* step: room.disconnect() is called
C15_TeardownSurvivesSendFailure ==
    \A c \in Callers :
        /\ es_pc[c] # "raised"
        /\ es_outcome[c] \in {"error", "raise"}
              => (es_pc[c] = "disconnect" /\ disconnect_calls >= 1)

\* send_call_history raised inside an end_session that is now disconnecting
C15_Witness ==
    \E c \in Callers :
        /\ es_outcome[c] = "raise"
        /\ es_pc[c] = "disconnect"
        /\ disconnect_calls >= 1

\* C16: the welcome reply is requested only in the step in which
\* AgentSession.start returns, and once start (or anything else in the
\* entrypoint) has raised no welcome reply is requested any more
C16_WelcomeAfterStart ==
    [][/\ (epc # "welcome" /\ epc' = "welcome")
            => (epc = "starting" /\ pipeline' = "started")
       /\ (epc = "starting" /\ epc' \notin {"starting", "welcome"}) => EntryFailed'
       /\ EntryFailed => epc' # "welcome"]_vars

\* the pipeline session is started and the welcome reply is being awaited
C16_Witness ==
    /\ epc = "welcome"
    /\ pipeline = "started"
    /\ agent_session

\* a fresh Assistant, an empty recorder, no resolution in progress
Init == RecInit /\ SessInit /\ CfIdle

\* a fresh process about to resolve a configuration for a session
ConfigInit == RecInit /\ SessInit /\ CfInit

\* a fresh process about to look an identifier up in the layered resolver
ResolverInit == RecInit /\ SessInit /\ RsInit

\* a participant joins a fresh session
DirectionInit == RecInit /\ SessInit /\ DrInit

\* a fresh session about to load its configuration and welcome the caller
WelcomeInit == RecInit /\ SessInit /\ WlInit

\* a fresh process about to normalize one raw tools dict
ToolsInit == RecInit /\ SessInit /\ TlInit

\* a SIP participant joins a room
RoomInit == RecInit /\ SessInit /\ RmInit

\* start_session is about to build the components
FactoryInit == RecInit /\ SessInit /\ MfInit

\* get_tools_schema has answered
DynamicToolsInit == RecInit /\ SessInit /\ DtInit

\* two calls are being set up in one process
EnvironInit == RecInit /\ SessInit /\ TcInit

\* an empty recorder whose callers end calls repeatedly
RetryInit == RecInit /\ SessInit /\ RtInit

SpecSession == Init /\ [][SessNext]_vars

SpecRecorder == Init /\ [][RecNext]_vars

SpecConfig == ConfigInit /\ [][CfNext]_vars

SpecResolver == ResolverInit /\ [][RsNext]_vars

SpecDirection == DirectionInit /\ [][DrNext]_vars

SpecWelcome == WelcomeInit /\ [][WlNext]_vars

SpecStages == Init /\ [][StNext]_vars

SpecTools == ToolsInit /\ [][Tl_Prepare]_vars

SpecRoom == RoomInit /\ [][RmNext]_vars

SpecFactory == FactoryInit /\ [][MfNext]_vars

SpecDynamicTools == DynamicToolsInit /\ [][Dt_Create]_vars

SpecEnviron == EnvironInit /\ [][TcNext]_vars

SpecOptOut == ConfigInit /\ [][SrNext]_vars

SpecRetry == RetryInit /\ [][RtNext]_vars

Spec == SpecSession

====
